---- MODULE Spec2Model ----
(***************************************************************************)
(* Gate-pass issuance of the Shining Smiles WhatsApp service:              *)
(*   src/src/services/gatepass_service.py  (calculate_expiry_date,         *)
(*       check_and_update_rate_limit, generate_gatepass)                   *)
(*   src/src/utils/whatsapp.py             (send_whatsapp_message)         *)
(*   src/src/config.py                     (TERM_END_DATES)                *)
(*                                                                         *)
(* Time.  A datetime is an integer number of ticks: day * TicksPerDay +    *)
(* time-of-day, where day 0 is 2025-01-01.  Time-of-day 0 is 00:00:00,     *)
(* EndOfDay is 23:59:59.999999 and the values between are instants during  *)
(* the day.  timedelta(days = n) is n * TicksPerDay ticks.                 *)
(*                                                                         *)
(* Percentages.  payment_percentage = (payment_amount / total_fees) * 100  *)
(* is kept as the exact fraction num / den with num = 100 * payment_amount *)
(* and den = total_fees; comparisons are cross-multiplied.  The amounts    *)
(* the model draws (400, 500, 605, 700, 1000 of 1000) are ones for which   *)
(* the float arithmetic of the code gives exactly that value.              *)
(***************************************************************************)
EXTENDS Integers, Sequences, FiniteSets, TLC

(***************************************************************************)
(* Bounds of the model                                                     *)
(***************************************************************************)
\* instants per day that the model tells apart (at least 3)
TicksPerDay == 3
\* the expiry probe draws "now" from the first ProbeDays days of 2026
ProbeDays == 100

EndOfDay == TicksPerDay - 1

(***************************************************************************)
(* The proleptic Gregorian calendar of datetime, from 2025-01-01           *)
(***************************************************************************)
IsLeap(y) == (y % 4 = 0) /\ ((y % 100 # 0) \/ (y % 400 = 0))

DaysInMonth(y, m) ==
    IF m = 2 THEN (IF IsLeap(y) THEN 29 ELSE 28)
    ELSE IF m \in {4, 6, 9, 11} THEN 30 ELSE 31

DaysInYear(y) == IF IsLeap(y) THEN 366 ELSE 365

RECURSIVE DaysBeforeYear(_)
DaysBeforeYear(y) == IF y <= 2025 THEN 0 ELSE DaysBeforeYear(y - 1) + DaysInYear(y - 1)

RECURSIVE DaysBeforeMonth(_, _)
DaysBeforeMonth(y, m) == IF m <= 1 THEN 0 ELSE DaysBeforeMonth(y, m - 1) + DaysInMonth(y, m - 1)

\* the day number of the date y-m-d
DayNum(y, m, d) == DaysBeforeYear(y) + DaysBeforeMonth(y, m) + (d - 1)

RECURSIVE YearFrom(_, _)
YearFrom(y, n) == IF n < DaysInYear(y) THEN y ELSE YearFrom(y + 1, n - DaysInYear(y))

YearOf(n) == YearFrom(2025, n)

RECURSIVE MonthFrom(_, _, _)
MonthFrom(y, m, n) == IF n < DaysInMonth(y, m) THEN m ELSE MonthFrom(y, m + 1, n - DaysInMonth(y, m))

MonthOf(n) == MonthFrom(YearOf(n), 1, n - DaysBeforeYear(YearOf(n)))

\* day of the month, 1..31
DomOf(n) == n - DayNum(YearOf(n), MonthOf(n), 1) + 1

\* date.weekday(): Monday is 0; 2025-01-01 is a Wednesday
Weekday(n) == (n + 2) % 7

\* a datetime from its date and its time-of-day
At(y, m, d, tod) == DayNum(y, m, d) * TicksPerDay + tod

DayOf(t) == t \div TicksPerDay
TodOf(t) == t % TicksPerDay
Days(n) == n * TicksPerDay

\* dt.replace(hour=0, minute=0, second=0, microsecond=0)
Midnight(t) == DayOf(t) * TicksPerDay

\* dt.replace(day=k), for the k in 1..28 the code uses; the time-of-day is kept
ReplaceDay(t, k) == t + Days(k - DomOf(DayOf(t)))

\* dt.replace(hour=23, minute=59, second=59, microsecond=999999)
ReplaceEndOfDay(t) == DayOf(t) * TicksPerDay + EndOfDay

(***************************************************************************)
(* Configuration: Config.TERM_END_DATES                                    *)
(***************************************************************************)
ConfiguredTerms == {"2025-1", "2025-2", "2025-3", "2026-1", "2026-2", "2026-3"}

TERM_END_DATES(term) ==
    CASE term = "2025-1" -> At(2025, 3, 31, 0)
      [] term = "2025-2" -> At(2025, 7, 31, 0)
      [] term = "2025-3" -> At(2025, 12, 15, 0)
      [] term = "2026-1" -> At(2026, 4, 2, 0)
      [] term = "2026-2" -> At(2026, 8, 6, 0)
      [] term = "2026-3" -> At(2026, 12, 3, 0)

(***************************************************************************)
(* calculate_expiry_date(term, payment_percentage, payment_date)           *)
(* The percentage is num / den.  The result is a record: kind "date" with  *)
(* the datetime, kind "none" (Python None), or kind "error" (the           *)
(* ({"error": ...}, 400) tuple returned for a term without an end date).   *)
(***************************************************************************)
PctGE(num, den, k) == num >= k * den

ExpiryDate(t) == [kind |-> "date", at |-> t]
ExpiryNone == [kind |-> "none", at |-> 0]
ExpiryError == [kind |-> "error", at |-> 0]

\* line 52-53
SeventyTier(term_end, now) ==
    LET one_month_before == term_end - Days(30)
    IN  IF one_month_before > now THEN one_month_before ELSE now + Days(1)

\* a variant of FiftyTier that looks 30 days ahead instead of 32
FiftyTierThirty(now) ==
    LET next_month == Midnight(ReplaceDay(now + Days(30), 1))
        last_day_of_month == ReplaceEndOfDay(ReplaceDay(ReplaceDay(next_month, 28) + Days(4), 1) - Days(1))
    IN  IF last_day_of_month > now THEN last_day_of_month ELSE now + Days(1)

\* line 55-58
FiftyTier(now) ==
    LET next_month == Midnight(ReplaceDay(now + Days(32), 1))
        last_day_of_month == ReplaceEndOfDay(ReplaceDay(ReplaceDay(next_month, 28) + Days(4), 1) - Days(1))
    IN  IF last_day_of_month > now THEN last_day_of_month ELSE now + Days(1)

\* a variant of calculate_expiry_date whose lowest threshold is 40
calculate_expiry_date_low(term, num, den, now) ==
    IF term \notin ConfiguredTerms THEN ExpiryError
    ELSE IF PctGE(num, den, 100) THEN ExpiryDate(TERM_END_DATES(term))
    ELSE IF PctGE(num, den, 70) THEN ExpiryDate(SeventyTier(TERM_END_DATES(term), now))
    ELSE IF PctGE(num, den, 40) THEN ExpiryDate(FiftyTier(now))
    ELSE ExpiryNone

calculate_expiry_date(term, num, den, now) ==
    IF term \notin ConfiguredTerms THEN ExpiryError
    ELSE IF PctGE(num, den, 100) THEN ExpiryDate(TERM_END_DATES(term))
    ELSE IF PctGE(num, den, 70) THEN ExpiryDate(SeventyTier(TERM_END_DATES(term), now))
    ELSE IF PctGE(num, den, 50) THEN ExpiryDate(FiftyTier(now))
    ELSE ExpiryNone

(***************************************************************************)
(* State                                                                   *)
(***************************************************************************)
VARIABLES
    probe,      \* the expiry probe: inputs and results of calculate_expiry_date
    now,        \* the clock: what datetime.now(timezone.utc) returns
    workers,    \* the workers that serve requests (one request at a time each)
    contacts,   \* table student_contacts
    passes,     \* table gate_passes
    logs,       \* table gate_pass_request_logs
    calls,      \* ghost: per <<student_id, week_start>>, the limiter calls made (n)
                \* and whether one of them was classified 'block' (blocked)
    pc,         \* per worker: where it is in generate_gatepass
    req,        \* per worker: the arguments of generate_gatepass
    loc,        \* per worker: the local variables of generate_gatepass
    result,     \* per worker: what generate_gatepass returned
    user_states,\* table user_states: per phone number its row
    turn,       \* the conversation turn being handled, or the last one handled
    reminded,   \* ghost: per phone number, when the last balance reminder was
                \* sent to it (at) and for which term, when the one before
                \* it was sent (prev), and how many were sent to it (n)
    ledger,     \* the payments: what the SMS API reports as paid, the column
                \* last_total_paid of student_contacts, and ghosts of the
                \* payments that arrived and of the confirmations sent
    scans,      \* table gate_pass_scans and the answer of the last verification
    sync        \* the profile sync: the invocation that runs or is queued

vars == <<probe, now, workers, contacts, passes, logs, calls, pc, req, loc, result,
         user_states, turn, reminded, ledger, scans, sync>>
issueVars == <<now, workers, contacts, passes, logs, calls, pc, req, loc, result,
              user_states, turn, reminded, ledger, scans, sync>>

(***************************************************************************)
(* The inputs of generate_gatepass and the environment                     *)
(***************************************************************************)
Procs == {1, 2}

\* student_id arguments; the first two match r'^SSC\d+$', "" is a missing one
StudentIdInputs == {"SSC20250001", "SSC20250002", "TCH7", ""}
StudentIdFormatOK == {"SSC20250001", "SSC20250002"}

\* term arguments; the first three match r'^\d{4}-\d$'. "2024-1" has no entry
\* in TERM_END_DATES, "2025-3" ended on 2025-12-15
TermInputs == {"2026-1", "2025-3", "2024-1", "2026/1", ""}
TermFormatOK == {"2026-1", "2025-3", "2024-1"}

PaymentAmounts == {-50, 400, 605, 700, 1000}
TotalFees == {0, 1000}

\* phone numbers; NoNumber is None
NoNumber == "None"
RequesterNumber == "+263771111111"
RegisteredNumber == "+263772222222"
RequestingNumbers == {NoNumber, RequesterNumber, "0771111111"}
\* r'^\+\d{10,15}$'
NumberFormatOK == {RequesterNumber, RegisteredNumber}

\* the instants the clock takes: Sunday 2026-03-01 during the day, Tuesday
\* 2026-03-03 at 00:00 (the next week) and Tuesday during the day
Instants == {At(2026, 3, 1, 1), At(2026, 3, 3, 0), At(2026, 3, 3, 1)}

\* the students the profile source (the SMS API) has a profile of
ProfileSource == {"SSC20250001"}

\* a request starts only while the tables hold fewer rows / calls than this
MaxPasses == 2
MaxCalls == 7

(***************************************************************************)
(* Rows and values                                                         *)
(***************************************************************************)
NoPass == [pass_id |-> 0, student_id |-> "", issued_date |-> 0, expiry_date |-> 0,
           payment_percentage |-> 0, whatsapp_number |-> NoNumber,
           term |-> "", payment_amount |-> 0, total_fees |-> 0]

NoResult == [status |-> "", code |-> 0, pass_id |-> 0]

Result(status, code, pass_id) == [status |-> status, code |-> code, pass_id |-> pass_id]
ErrorResult(code) == Result("error", code, 0)

\* the phone numbers that write to the service; each is a number of a contact
StaffNumber == "+263774444444"
Phones == {RequesterNumber, StaffNumber}
\* a phone that no row of student_contacts names
GuestNumber == "+263775555555"
AllPhones == Phones \cup {GuestNumber}
\* the phone numbers a row of user_states can be keyed by
RowPhones == AllPhones \cup {RegisteredNumber}
\* the two handlers of an inbound message: handle_whatsapp_message of
\* webhook_handler.py and the view whatsapp_menu of routes/whatsapp.py
HookImpl == "handle_whatsapp_message"
MenuImpl == "whatsapp_menu"

\* a row of user_states: the state, last_updated (NoTime is None),
\* query_count and reminder_count, whose column default is 0.  NoRow stands
\* for a phone without a row
NoTime == -1
UserState(state, last_updated, query_count) ==
    [state |-> state, last_updated |-> last_updated, query_count |-> query_count,
     reminder_count |-> 0]
NoRow == UserState("absent", NoTime, 0)
\* the students whose payments are checked
PaymentStudents == {"SSC20250002"}

\* no payment has arrived and none was confirmed; last_total_paid is 0.0 by
\* the default of its column
LedgerInit ==
    [pc |-> "idle",
     paid |-> [sid \in PaymentStudents |-> 0],
     last_total_paid |-> [sid \in PaymentStudents |-> 0],
     npay |-> [sid \in PaymentStudents |-> 0],
     nconf |-> [sid \in PaymentStudents |-> 0],
     conf_total |-> [sid \in PaymentStudents |-> 0],
     conf_last |-> [sid \in PaymentStudents |-> 0]]

\* what verify_gatepass answered: the code, the status, the pass asked for
\* with its registered number and expiry date, the accessing number, the
\* instant, and whether the call added a row to gate_pass_scans
Verified(code, status, pass_id, registered, accessing, expiry, at, scanned) ==
    [code |-> code, status |-> status, pass_id |-> pass_id, registered |-> registered,
     accessing |-> accessing, expiry |-> expiry, at |-> at, scanned |-> scanned]

\* no scan is recorded and nothing was verified
ScansInit == [rows |-> {}, last |-> Verified(0, "none", 0, "None", "None", 0, 0, FALSE)]

\* no invocation of the profile sync is queued or has run: the event that
\* is queued carries start_page and retry_count, and trail (a ghost) lists
\* the runs of sync_student_profiles that have returned
SyncInit == [pc |-> "idle", start_page |-> 0, retry_count |-> 0, trail |-> <<>>]

\* reminded[phone] when no reminder was sent to the phone
NoReminder == [at |-> NoTime, term |-> "None", prev |-> NoTime, n |-> 0]

\* a reply: which text it is, whether the text holds the contact address
\* admin@shiningsmilescollege.ac.zw (or "contact support"), and whether the
\* menu is appended.  NoReply is a handler that returned None
Reply(text, contact, menu) == [text |-> text, contact |-> contact, menu |-> menu]
NoReply == Reply("None", FALSE, FALSE)

\* the turn: the message and the session state it met, the students of the
\* phone, the per-student lines collected so far, the exception raised by a
\* collaborator, and the reply returned
TurnIdle == [pc |-> "idle", impl |-> "", phone |-> NoNumber, message |-> "",
             state0 |-> "absent", count0 |-> 0, updated0 |-> NoTime, error |-> FALSE,
             term |-> "", student_ids |-> <<>>, i |-> 0, lines |-> <<>>,
             raised |-> "none", reply |-> NoReply]

LocInit == [whatsapp_number |-> NoNumber, week_start |-> 0, rl_now |-> 0, log_id |-> 0,
            current_count |-> 0, request_count |-> 0, tier |-> "",
            expiry_date |-> ExpiryNone, issued_date |-> 0, existing |-> NoPass,
            pass_id |-> 0, sent |-> <<>>,
            \* ghosts: the steps taken, the number of this limiter call among the
            \* calls for its student and week, and the tables as the request began
            hist |-> <<>>, call_no |-> 0, passes0 |-> {}, logs0 |-> {}, contacts0 |-> {},
            \* ghost: an earlier call for the same student and week was blocked
            blocked_before |-> FALSE]

ReqInit == [student_id |-> "", term |-> "", payment_amount |-> 0, total_fees |-> 0,
            requesting_whatsapp_number |-> NoNumber]

\* payment_percentage = (payment_amount / total_fees) * 100, as the fraction
\* PctNum / PctDen
PctNum(r) == 100 * r.payment_amount
PctDen(r) == r.total_fees

\* int(payment_percentage), for the non-negative percentages that reach it
IntPct(r) == PctNum(r) \div PctDen(r)

TotalCalls ==
    LET RECURSIVE Sum(_)
        Sum(S) == IF S = {} THEN 0
                  ELSE LET l == CHOOSE x \in S : TRUE
                       IN  l.request_count + Sum(S \ {l})
    IN  Sum(logs)

Append2(s, a, b) == Append(Append(s, a), b)

(***************************************************************************)
(* generate_gatepass, lines 236-257: validation of the arguments           *)
(***************************************************************************)
\* a validation that lets a negative payment_amount through
InputsValidAnyAmount(r) ==
    /\ r.student_id # "" /\ r.term # ""
    /\ r.student_id \in StudentIdFormatOK
    /\ r.term \in TermFormatOK
    /\ r.total_fees > 0

InputsValid(r) ==
    /\ r.student_id # "" /\ r.term # ""
    /\ r.student_id \in StudentIdFormatOK
    /\ r.term \in TermFormatOK
    /\ r.total_fees > 0
    /\ r.payment_amount >= 0

Finish(p, res) ==
    /\ pc' = [pc EXCEPT ![p] = "done"]
    /\ result' = [result EXCEPT ![p] = res]

\* the requests drawn.  Well-formed ones: for the running term every amount;
\* for the ended term and for the term without an end date an amount below
\* the threshold and the full amount; one request sent from the requester's
\* own number; one for a student the profile source does not know.
\* Malformed ones: a well-formed request with one argument replaced by each
\* malformed value
BaseRequest == [student_id |-> "SSC20250001", term |-> "2026-1", payment_amount |-> 700,
                total_fees |-> 1000, requesting_whatsapp_number |-> NoNumber]

WellFormedRequests ==
    {[BaseRequest EXCEPT !.payment_amount = a] : a \in {a \in PaymentAmounts : a >= 0}}
    \cup {[BaseRequest EXCEPT !.term = term, !.payment_amount = a] :
              term \in TermFormatOK \ {"2026-1"}, a \in {400, 1000}}
    \cup {[BaseRequest EXCEPT !.requesting_whatsapp_number = RequesterNumber]}
    \cup {[BaseRequest EXCEPT !.student_id = sid] : sid \in StudentIdFormatOK \ ProfileSource}

MalformedRequests ==
    {[BaseRequest EXCEPT !.student_id = sid] : sid \in StudentIdInputs \ StudentIdFormatOK}
    \cup {[BaseRequest EXCEPT !.term = term] : term \in TermInputs \ TermFormatOK}
    \cup {[BaseRequest EXCEPT !.payment_amount = a] : a \in {a \in PaymentAmounts : a < 0}}
    \cup {[BaseRequest EXCEPT !.total_fees = f] : f \in {f \in TotalFees : f <= 0}}
    \cup {[BaseRequest EXCEPT !.requesting_whatsapp_number = n] :
             n \in RequestingNumbers \ (NumberFormatOK \cup {NoNumber})}

RequestInputs == WellFormedRequests \cup MalformedRequests

\* generate_gatepass(r) is called on worker p: the arguments are validated
StartCall(p, r) ==
    /\ req' = [req EXCEPT ![p] = r]
    /\ loc' = [loc EXCEPT ![p] = [LocInit EXCEPT !.passes0 = passes, !.logs0 = logs,
                                                  !.contacts0 = contacts]]
    /\ IF InputsValid(r)
       THEN /\ pc' = [pc EXCEPT ![p] = "contact"]
            /\ result' = [result EXCEPT ![p] = NoResult]
       ELSE Finish(p, ErrorResult(400))

\* a call of generate_gatepass with arguments drawn from inputs, made while the
\* tables hold fewer than maxPasses passes and maxCalls counted calls
RequestFrom(p, inputs, maxPasses, maxCalls) ==
    /\ p \in workers
    /\ pc[p] \in {"idle", "done"}
    /\ Cardinality(passes) < maxPasses
    /\ TotalCalls < maxCalls
    /\ \E r \in inputs : StartCall(p, r)
    /\ UNCHANGED <<user_states, turn, probe, ledger, scans, sync, reminded, now, workers, contacts, passes, logs, calls>>

Request(p) == RequestFrom(p, RequestInputs, MaxPasses, MaxCalls)

(***************************************************************************)
(* lines 259-284: the contact, by just-in-time sync if it is not in the    *)
(* table, and the number the pass is sent to                               *)
(***************************************************************************)
ContactOf(sid) == {c \in contacts : c.student_id = sid}

\* fetch_and_create_student_contact: the profile source answers with a
\* profile holding a usable student_mobile, or (synced = FALSE) it does not
JitContact(sid) == [student_id |-> sid, preferred_phone_number |-> RegisteredNumber,
                    student_mobile |-> RegisteredNumber]

ResolveNumber(r, c) ==
    IF r.requesting_whatsapp_number # NoNumber THEN r.requesting_whatsapp_number
    ELSE IF c.preferred_phone_number # NoNumber THEN c.preferred_phone_number
    ELSE c.student_mobile

ResolveContact(p) ==
    /\ pc[p] = "contact"
    /\ \E synced \in (IF req[p].student_id \in ProfileSource THEN BOOLEAN ELSE {FALSE}) :
          LET known == ContactOf(req[p].student_id)
              found == known # {} \/ synced
              c == IF known # {} THEN CHOOSE x \in known : TRUE ELSE JitContact(req[p].student_id)
              number == ResolveNumber(req[p], c)
          IN  /\ contacts' = IF known = {} /\ synced THEN contacts \cup {c} ELSE contacts
              /\ IF ~found THEN Finish(p, ErrorResult(404)) /\ UNCHANGED loc
                 ELSE IF number = NoNumber \/ number \notin NumberFormatOK
                 THEN Finish(p, ErrorResult(400)) /\ UNCHANGED loc
                 ELSE /\ pc' = [pc EXCEPT ![p] = "verify"]
                      /\ loc' = [loc EXCEPT ![p].whatsapp_number = number]
                      /\ UNCHANGED result
    /\ UNCHANGED <<user_states, turn, probe, ledger, scans, sync, reminded, now, workers, passes, logs, calls, req>>

(***************************************************************************)
(* lines 286-290: sms_client.check_whatsapp_number                         *)
(***************************************************************************)
CheckWhatsApp(p) ==
    /\ pc[p] = "verify"
    /\ \E registered \in BOOLEAN :
          IF registered
          THEN /\ pc' = [pc EXCEPT ![p] = "ratelimit"]
               /\ loc' = [loc EXCEPT ![p].hist = Append(@, "verified")]
               /\ UNCHANGED result
          ELSE Finish(p, ErrorResult(400)) /\ UNCHANGED loc
    /\ UNCHANGED <<user_states, turn, probe, ledger, scans, sync, reminded, now, workers, contacts, passes, logs, calls, req>>

(***************************************************************************)
(* check_and_update_rate_limit, lines 70-109                               *)
(***************************************************************************)
\* a variant of WeekStart anchored on Sunday
WeekStartSunday(t) == Midnight(t - Days((Weekday(DayOf(t)) + 1) % 7))

\* line 72: the Monday 00:00 of the week of t
WeekStart(t) == Midnight(t - Days(Weekday(DayOf(t))))

\* a variant of TierFor that blocks the sixth call only
TierForOnce(current_count) ==
    IF current_count < 3 THEN "pdf"
    ELSE IF current_count = 5 THEN "block"
    ELSE "text"

\* a variant of TierFor whose comparisons are <= instead of <
TierForInclusive(current_count) ==
    IF current_count <= 3 THEN "pdf"
    ELSE IF current_count <= 5 THEN "text"
    ELSE "block"

\* lines 95-100
TierFor(current_count) ==
    IF current_count < 3 THEN "pdf"
    ELSE IF current_count < 5 THEN "text"
    ELSE "block"

\* a variant of RateLimitRead whose query does not filter on the week
RateLimitReadAnyWeek(p) ==
    /\ pc[p] = "ratelimit"
    /\ LET week_start == WeekStart(now)
           rows == {l \in logs : l.student_id = req[p].student_id}
       IN  \E log_id \in (IF rows = {} THEN {0} ELSE {l.id : l \in rows}) :
              /\ loc' = [loc EXCEPT ![p].rl_now = now,
                                    ![p].week_start = week_start,
                                    ![p].log_id = log_id,
                                    ![p].current_count =
                                        IF log_id = 0 THEN 0
                                        ELSE (CHOOSE l \in rows : l.id = log_id).request_count]
    /\ pc' = [pc EXCEPT ![p] = "rl_write"]
    /\ UNCHANGED <<user_states, turn, probe, ledger, scans, sync, reminded, now, workers, contacts, passes, logs, calls, req, result>>

\* a variant of LogsAfter that does not count a call classified 'block'
LogsAfterUnlessBlocked(p) ==
    IF loc[p].log_id = 0
    THEN logs \cup {[id |-> Cardinality(logs) + 1, student_id |-> req[p].student_id,
                     week_start_date |-> loc[p].week_start, request_count |-> 1,
                     last_request_date |-> loc[p].rl_now]}
    ELSE {IF l.id = loc[p].log_id /\ loc[p].current_count < 5
          THEN [l EXCEPT !.request_count = loc[p].current_count + 1,
                         !.last_request_date = loc[p].rl_now]
          ELSE l : l \in logs}

\* lines 70-78: the clock is read and the week's row is looked up; .first()
\* of a query without ORDER BY returns any of the rows that match
RateLimitRead(p) ==
    /\ pc[p] = "ratelimit"
    /\ LET week_start == WeekStart(now)
           rows == {l \in logs : l.student_id = req[p].student_id /\ l.week_start_date = week_start}
       IN  \E log_id \in (IF rows = {} THEN {0} ELSE {l.id : l \in rows}) :
              /\ loc' = [loc EXCEPT ![p].rl_now = now,
                                    ![p].week_start = week_start,
                                    ![p].log_id = log_id,
                                    ![p].current_count =
                                        IF log_id = 0 THEN 0
                                        ELSE (CHOOSE l \in rows : l.id = log_id).request_count]
    /\ pc' = [pc EXCEPT ![p] = "rl_write"]
    /\ UNCHANGED <<user_states, turn, probe, ledger, scans, sync, reminded, now, workers, contacts, passes, logs, calls, req, result>>

\* lines 80-90: no row: one is added with request_count = 1, the call returns (1, 'pdf')
\* lines 92-109: the row's count is raised by one, the call returns (count, tier)
LimiterReturn(log_id, current_count) ==
    IF log_id = 0 THEN [request_count |-> 1, tier |-> "pdf"]
    ELSE [request_count |-> current_count + 1, tier |-> TierFor(current_count)]

LogsAfter(p) ==
    IF loc[p].log_id = 0
    THEN logs \cup {[id |-> Cardinality(logs) + 1, student_id |-> req[p].student_id,
                     week_start_date |-> loc[p].week_start, request_count |-> 1,
                     last_request_date |-> loc[p].rl_now]}
    ELSE {IF l.id = loc[p].log_id
          THEN [l EXCEPT !.request_count = loc[p].current_count + 1,
                         !.last_request_date = loc[p].rl_now]
          ELSE l : l \in logs}

\* a variant of AfterRateLimit without the return for tier 'block'
AfterRateLimitNoReturn(p, ret) ==
    pc' = [pc EXCEPT ![p] = "expiry"] /\ UNCHANGED result

\* generate_gatepass lines 292-300: tier 'block' returns 429 at once
AfterRateLimit(p, ret) ==
    IF ret.tier = "block"
    THEN Finish(p, Result("Rate limit exceeded", 429, 0))
    ELSE pc' = [pc EXCEPT ![p] = "expiry"] /\ UNCHANGED result

RateLimitWrite(p) ==
    /\ pc[p] = "rl_write"
    /\ LET ret == LimiterReturn(loc[p].log_id, loc[p].current_count)
           key == <<req[p].student_id, loc[p].week_start>>
       IN  /\ logs' = LogsAfter(p)
           /\ calls' = [calls EXCEPT ![key] = [n |-> @.n + 1,
                                            blocked |-> @.blocked \/ ret.tier = "block"]]
           /\ loc' = [loc EXCEPT ![p].request_count = ret.request_count,
                                 ![p].tier = ret.tier,
                                 ![p].hist = Append(@, "limited"),
                                 ![p].call_no = calls[key].n + 1,
                                 ![p].blocked_before = calls[key].blocked]
           /\ AfterRateLimit(p, ret)
    /\ UNCHANGED <<user_states, turn, probe, ledger, scans, sync, reminded, now, workers, contacts, passes, req>>

(***************************************************************************)
(* lines 302-310: the percentage and the expiry date                       *)
(***************************************************************************)
\* lines 304-310.  calculate_expiry_date returns the tuple ({"error": ...}, 400)
\* for a term without an end date; the tuple is no dict and is not falsy, so
\* neither return is taken for it
AfterExpiry(p, expiry_date) ==
    IF expiry_date.kind = "none"
    THEN Finish(p, Result("No gate pass issued", 200, 0))
    ELSE pc' = [pc EXCEPT ![p] = "lookup"] /\ UNCHANGED result

ComputeExpiry(p) ==
    /\ pc[p] = "expiry"
    /\ LET expiry_date == calculate_expiry_date(req[p].term, PctNum(req[p]), PctDen(req[p]), now)
       IN  /\ loc' = [loc EXCEPT ![p].expiry_date = expiry_date]
           /\ AfterExpiry(p, expiry_date)
    /\ UNCHANGED <<user_states, turn, probe, ledger, scans, sync, reminded, now, workers, contacts, passes, logs, calls, req>>

(***************************************************************************)
(* lines 312-318: the valid pass of the student, if any                    *)
(***************************************************************************)
\* line 313-316: the filter of the query
Unexpired(sid, issued_date) ==
    {g \in passes : g.student_id = sid /\ g.expiry_date >= issued_date}

\* a variant of Adequate that compares with > instead of >=
AdequateStrict(g, r) == g.payment_percentage * PctDen(r) > PctNum(r)

\* line 318: existing_pass.payment_percentage >= payment_percentage
Adequate(g, r) == g.payment_percentage * PctDen(r) >= PctNum(r)

LookupExisting(p) ==
    /\ pc[p] = "lookup"
    /\ LET rows == Unexpired(req[p].student_id, now)
       IN  \E g \in (IF rows = {} THEN {NoPass} ELSE rows) :
              /\ loc' = [loc EXCEPT ![p].issued_date = now, ![p].existing = g]
              /\ pc' = [pc EXCEPT ![p] = IF g # NoPass /\ Adequate(g, req[p])
                                         THEN "resend" ELSE "artifact"]
    /\ UNCHANGED <<user_states, turn, probe, ledger, scans, sync, reminded, now, workers, contacts, passes, logs, calls, req, result>>

(***************************************************************************)
(* send_whatsapp_message (utils/whatsapp.py, lines 55-73): after its       *)
(* attempts it has returned {"status": "sent"} or it has raised; it never  *)
(* returns another status                                                  *)
(***************************************************************************)
SendOutcomes == {"sent", "raised"}

\* requests.get(presigned_url): status 200, another status, or an exception
FetchOutcomes == {"200", "403", "raised"}

Sent(kind, pass_id, outcome) == [kind |-> kind, pass_id |-> pass_id, outcome |-> outcome]

(***************************************************************************)
(* lines 319-396: an adequate valid pass exists; it is sent again          *)
(***************************************************************************)
\* the messages sent and the value returned, from the outcomes of the
\* fetch, of the first send and of the fallback send
ResendOutcome(tier, g, fetch, first, fallback) ==
    LET textOnly == Result("Gate pass valid (text-only sent)", 200, g.pass_id)
        resent == Result("Gate pass already valid and resent", 200, g.pass_id)
        \* lines 370-389; a send that raises here leaves through line 601
        Fallback(sentSoFar) ==
            [sent |-> Append(sentSoFar, Sent("text", g.pass_id, fallback)),
             result |-> IF fallback = "sent" THEN resent ELSE ErrorResult(500)]
    IN  IF fetch = "raised" THEN Fallback(<<>>)
        ELSE IF tier = "text"
        THEN \* lines 331-353
             IF first = "sent"
             THEN [sent |-> <<Sent("text", g.pass_id, first)>>, result |-> textOnly]
             ELSE Fallback(<<Sent("text", g.pass_id, first)>>)
        ELSE IF fetch = "200"
        THEN \* lines 356-367, 391-396
             IF first = "sent"
             THEN [sent |-> <<Sent("pdf", g.pass_id, first)>>, result |-> resent]
             ELSE Fallback(<<Sent("pdf", g.pass_id, first)>>)
        ELSE \* line 369
             Fallback(<<>>)

Resend(p) ==
    /\ pc[p] = "resend"
    /\ \E fetch \in FetchOutcomes, first \in SendOutcomes, fallback \in SendOutcomes :
          LET out == ResendOutcome(loc[p].tier, loc[p].existing, fetch, first, fallback)
          IN  /\ loc' = [loc EXCEPT ![p].sent = out.sent]
              /\ Finish(p, out.result)
    /\ UNCHANGED <<user_states, turn, probe, ledger, scans, sync, reminded, now, workers, contacts, passes, logs, calls, req>>

(***************************************************************************)
(* lines 398-533: a new pass; its identifier, QR code, PDF and upload      *)
(***************************************************************************)
\* uuid.uuid4(): an identifier no row and no other worker holds
FreshPassId(p) ==
    LET used == {g.pass_id : g \in passes} \cup {loc[q].pass_id : q \in Procs \ {p}}
    IN  CHOOSE n \in 1 .. (Cardinality(used) + 1) : n \notin used

\* line 472: expiry_date.strftime, which the error tuple does not have
ArtifactOK(expiry_date, rendered) == expiry_date.kind = "date" /\ rendered

GenerateArtifact(p) ==
    /\ pc[p] = "artifact"
    /\ \E rendered \in BOOLEAN :
          /\ loc' = [loc EXCEPT ![p].pass_id = FreshPassId(p)]
          /\ IF ArtifactOK(loc[p].expiry_date, rendered)
             THEN pc' = [pc EXCEPT ![p] = "persist"] /\ UNCHANGED result
             ELSE Finish(p, ErrorResult(500))
    /\ UNCHANGED <<user_states, turn, probe, ledger, scans, sync, reminded, now, workers, contacts, passes, logs, calls, req>>

(***************************************************************************)
(* lines 535-547: the row of the new pass                                  *)
(***************************************************************************)
\* term, payment_amount and total_fees are no columns of gate_passes: they
\* record the request that made the row
NewGatePass(p) ==
    [pass_id |-> loc[p].pass_id,
     student_id |-> req[p].student_id,
     issued_date |-> loc[p].issued_date,
     expiry_date |-> loc[p].expiry_date.at,
     payment_percentage |-> IntPct(req[p]),
     whatsapp_number |-> loc[p].whatsapp_number,
     term |-> req[p].term,
     payment_amount |-> req[p].payment_amount,
     total_fees |-> req[p].total_fees]

\* a variant of Persist that goes on to the delivery without adding the row
PersistSkipped(p) ==
    /\ pc[p] = "persist"
    /\ pc' = [pc EXCEPT ![p] = "deliver"]
    /\ UNCHANGED <<user_states, turn, probe, ledger, scans, sync, reminded, now, workers, contacts, passes, logs, calls, req, loc, result>>

\* a variant of Persist that keeps one row per student: the new row replaces
\* the rows the student has
PersistUnique(p) ==
    /\ pc[p] = "persist"
    /\ passes' = {g \in passes : g.student_id # req[p].student_id} \cup {NewGatePass(p)}
    /\ loc' = [loc EXCEPT ![p].hist = Append(@, "persisted")]
    /\ pc' = [pc EXCEPT ![p] = "deliver"]
    /\ UNCHANGED <<user_states, turn, probe, ledger, scans, sync, reminded, now, workers, contacts, logs, calls, req, result>>

Persist(p) ==
    /\ pc[p] = "persist"
    /\ passes' = passes \cup {NewGatePass(p)}
    /\ loc' = [loc EXCEPT ![p].hist = Append(@, "persisted")]
    /\ pc' = [pc EXCEPT ![p] = "deliver"]
    /\ UNCHANGED <<user_states, turn, probe, ledger, scans, sync, reminded, now, workers, contacts, logs, calls, req, result>>

(***************************************************************************)
(* lines 549-603: the new pass is sent                                     *)
(***************************************************************************)
DeliverOutcome(pass_id, fetch, first, fallback) ==
    IF fetch = "200" /\ first = "sent"
    THEN \* lines 557-571, 594-599
         [sent |-> <<Sent("pdf", pass_id, first)>>,
          result |-> Result("Gate pass issued", 200, pass_id)]
    ELSE \* lines 572-592; a send that raises here leaves through line 601
         [sent |-> Append(IF fetch = "200" THEN <<Sent("pdf", pass_id, first)>> ELSE <<>>,
                          Sent("text", pass_id, fallback)),
          result |-> IF fallback = "sent"
                     THEN Result("Gate pass issued (text fallback)", 200, pass_id)
                     ELSE ErrorResult(500)]

Deliver(p) ==
    /\ pc[p] = "deliver"
    /\ \E fetch \in FetchOutcomes, first \in SendOutcomes, fallback \in SendOutcomes :
          LET out == DeliverOutcome(loc[p].pass_id, fetch, first, fallback)
          IN  /\ loc' = [loc EXCEPT ![p].sent = out.sent,
                                    ![p].hist = Append(@, "delivery")]
              /\ Finish(p, out.result)
    /\ UNCHANGED <<user_states, turn, probe, ledger, scans, sync, reminded, now, workers, contacts, passes, logs, calls, req>>

(***************************************************************************)
(* The clock.  A request is served within one instant: the clock moves     *)
(* between requests.                                                       *)
(***************************************************************************)
TickIn(instants) ==
    /\ \A p \in Procs : pc[p] \in {"idle", "done"}
    /\ turn.pc = "idle"
    /\ \E t \in instants : t > now /\ now' = t
    /\ UNCHANGED <<user_states, turn, probe, ledger, scans, sync, reminded, workers, contacts, passes, logs, calls, pc, req, loc, result>>

Tick == TickIn(Instants)

\* the instants of the conversation: one in the holiday before term 2025-3,
\* one in term 2026-1 and one in the holiday after it
TurnInstants == {At(2025, 8, 15, 1), At(2026, 3, 3, 1), At(2026, 4, 15, 1)}

(***************************************************************************)
(* The specification of issuance with one worker                           *)
(***************************************************************************)
CallKeys == StudentIdFormatOK \X {WeekStart(t) : t \in Instants \cup TurnInstants}

IssueStart(w) ==
    /\ now = At(2026, 3, 1, 1)
    /\ workers = w
    /\ contacts = {}
    /\ passes = {}
    /\ logs = {}
    /\ calls = [k \in CallKeys |-> [n |-> 0, blocked |-> FALSE]]
    /\ pc = [p \in Procs |-> "idle"]
    /\ req = [p \in Procs |-> ReqInit]
    /\ loc = [p \in Procs |-> LocInit]
    /\ result = [p \in Procs |-> NoResult]
    /\ user_states = [ph \in RowPhones |-> NoRow]
    /\ reminded = [ph \in RowPhones |-> NoReminder]
    /\ ledger = LedgerInit
    /\ scans = ScansInit
    /\ sync = SyncInit
    /\ turn = TurnIdle

\* the steps of a request that has passed validation
Serve(p) ==
    \/ ResolveContact(p)
    \/ CheckWhatsApp(p)
    \/ RateLimitRead(p)
    \/ RateLimitWrite(p)
    \/ ComputeExpiry(p)
    \/ LookupExisting(p)
    \/ Resend(p)
    \/ GenerateArtifact(p)
    \/ Persist(p)
    \/ Deliver(p)

Step(p) == Request(p) \/ Serve(p)

ProbeIdle == [stage |-> "idle", term |-> "", now |-> 0, p1 |-> 0, p2 |-> 0,
              e1 |-> ExpiryNone, e2 |-> ExpiryNone]

Init == probe = ProbeIdle /\ IssueStart({1})
Next == Tick \/ \E p \in Procs : Step(p)
Spec == Init /\ [][Next]_vars

(***************************************************************************)
(* The specification of issuance with two workers: each serves calls of    *)
(* generate_gatepass for the same student and term, and their steps        *)
(* interleave                                                              *)
(***************************************************************************)
\* the call both workers serve: 70% of the fees of term 2026-1 are paid
RaceInputs == {BaseRequest}
\* the counted calls after which no further call is made
RaceCalls == 2

RaceRequest(p) == RequestFrom(p, RaceInputs, MaxPasses, RaceCalls)
RaceInit == probe = ProbeIdle /\ IssueStart({1, 2})
RaceNext == \E p \in Procs : (RaceRequest(p) \/ Serve(p))
SpecRace == RaceInit /\ [][RaceNext]_vars

(***************************************************************************)
(* The specification of a student who pays in instalments: the requests    *)
(* are for the running term with 60.5%, 70% and 100% paid, and are made    *)
(* while the table holds up to MaxPasses passes                            *)
(***************************************************************************)
UpgradeInputs == {[BaseRequest EXCEPT !.payment_amount = a] : a \in {605, 700, 1000}}
UpgradeRequest(p) == RequestFrom(p, UpgradeInputs, MaxPasses + 1, MaxCalls)
UpgradeNext == Tick \/ \E p \in Procs : (UpgradeRequest(p) \/ Serve(p))
SpecUpgrade == Init /\ [][UpgradeNext]_vars

(***************************************************************************)
(* The expiry probe: calculate_expiry_date applied to two percentages for  *)
(* one term and one payment_date                                           *)
(***************************************************************************)
\* percentages in tenths of a percent
ProbePcts == {490, 500, 605, 699, 700, 999, 1000, 1200}
ProbeTerms == ConfiguredTerms
ProbeNows == {At(2026, 1, 1, 0) + Days(d) + tod : d \in 0 .. (ProbeDays - 1), tod \in {0, 1, EndOfDay}}

ApplyExpiry ==
    /\ probe.stage = "picked"
    /\ probe' = [probe EXCEPT !.stage = "applied",
                              !.e1 = calculate_expiry_date(probe.term, probe.p1, 10, probe.now),
                              !.e2 = calculate_expiry_date(probe.term, probe.p2, 10, probe.now)]
    /\ UNCHANGED issueVars

\* the inputs are drawn by the initial state; ApplyExpiry calls the function on them
ExpiryInit ==
    /\ \E term \in ProbeTerms, t \in ProbeNows, p1 \in ProbePcts, p2 \in ProbePcts :
          /\ p1 <= p2
          /\ probe = [stage |-> "picked", term |-> term, now |-> t, p1 |-> p1, p2 |-> p2,
                      e1 |-> ExpiryNone, e2 |-> ExpiryNone]
    /\ IssueStart({})
ExpiryNext == ApplyExpiry
SpecExpiry == ExpiryInit /\ [][ExpiryNext]_vars

(***************************************************************************)
(* The conversation: src/src/webhook_handler.py, handle_whatsapp_message,  *)
(* for a phone number that student_contacts knows (lines 128-145 and       *)
(* 217-581).  The commits of the handler are taken to succeed; with that,  *)
(* every call that can raise inside the try of line 228 is inside one of   *)
(* the inner handlers and the handler of lines 576-581 is not reached.     *)
(***************************************************************************)
\* Config.TERM_START_DATES
TERM_START_DATES(term) ==
    CASE term = "2025-1" -> At(2025, 1, 1, 0)
      [] term = "2025-2" -> At(2025, 5, 5, 0)
      [] term = "2025-3" -> At(2025, 9, 1, 0)
      [] term = "2026-1" -> At(2026, 1, 4, 0)
      [] term = "2026-2" -> At(2026, 5, 4, 0)
      [] term = "2026-3" -> At(2026, 9, 7, 0)

\* the order in which the dict TERM_START_DATES is iterated
TermOrder == <<"2025-1", "2025-2", "2025-3", "2026-1", "2026-2", "2026-3">>

\* the value None of a term
NoTerm == "None"

\* next((term for term, start in TERM_START_DATES.items()
\*       if start.date() <= current_date <= TERM_END_DATES[term].date()), None)
RunningTerm(today) ==
    LET running == {k \in 1 .. Len(TermOrder) :
                       /\ DayOf(TERM_START_DATES(TermOrder[k])) <= today
                       /\ today <= DayOf(TERM_END_DATES(TermOrder[k]))}
    IN  IF running = {} THEN NoTerm
        ELSE TermOrder[CHOOSE k \in running : \A j \in running : k <= j]

\* lines 229-235: the running term, and "2025-3" when no term is running
DefaultTerm(today) ==
    IF RunningTerm(today) = NoTerm THEN "2025-3" ELSE RunningTerm(today)

\* get_current_term with an end date that is not part of the term
get_current_term_open(t) ==
    LET today == DayOf(t)
        running == {k \in 1 .. Len(TermOrder) :
                       /\ DayOf(TERM_START_DATES(TermOrder[k])) <= today
                       /\ today < DayOf(TERM_END_DATES(TermOrder[k]))}
    IN  IF running = {} THEN NoTerm
        ELSE TermOrder[CHOOSE k \in running : \A j \in running : k <= j]

\* Config.get_current_term, config.py lines 49-56, at instant t: today is the
\* date of the instant, and the first term of the dict with
\* start.date() <= today <= end.date() is returned, None when there is none
get_current_term(t) ==
    LET today == DayOf(t)
        running == {k \in 1 .. Len(TermOrder) :
                       /\ DayOf(TERM_START_DATES(TermOrder[k])) <= today
                       /\ today <= DayOf(TERM_END_DATES(TermOrder[k]))}
    IN  IF running = {} THEN NoTerm
        ELSE TermOrder[CHOOSE k \in running : \A j \in running : k <= j]

(***************************************************************************)
(* The term probe: get_current_term called at an instant of 2025 or 2026   *)
(***************************************************************************)
\* the days from 2025-01-01 on which the term is asked for
TermProbeDays == 730

TermProbeNows ==
    {At(2025, 1, 1, 0) + Days(d) + tod : d \in 0 .. (TermProbeDays - 1), tod \in {0, EndOfDay}}

ApplyTerm ==
    /\ probe.stage = "date_picked"
    /\ probe' = [probe EXCEPT !.stage = "term_found", !.term = get_current_term(probe.now)]
    /\ UNCHANGED issueVars

\* the instant is drawn by the initial state; ApplyTerm calls the function at it
TermInit ==
    /\ \E t \in TermProbeNows : probe = [ProbeIdle EXCEPT !.stage = "date_picked", !.now = t]
    /\ IssueStart({})
TermNext == ApplyTerm
SpecTerm == TermInit /\ [][TermNext]_vars

\* the rows of student_contacts: the requester is the preferred number of two
\* students, the registered number is the mobile of the first of them, and the
\* staff number belongs to a contact whose student_id is not a student's
TurnContacts ==
    {[student_id |-> "SSC20250001", preferred_phone_number |-> RequesterNumber,
      student_mobile |-> RegisteredNumber],
     [student_id |-> "SSC20250002", preferred_phone_number |-> RequesterNumber,
      student_mobile |-> RequesterNumber],
     [student_id |-> "TCH7", preferred_phone_number |-> StaffNumber,
      student_mobile |-> StaffNumber]}

\* lines 157-159: the contacts that name the phone as mobile or as preferred
\* number
ContactsOf(phone) ==
    {c \in contacts : c.student_mobile = phone \/ c.preferred_phone_number = phone}

\* line 219: the student ids of the contacts of the phone that match
\* r'^SSC\d+$', in the order of the table
StudentOrder == <<"SSC20250001", "SSC20250002">>
StudentIdsOf(phone) ==
    LET mine == {c.student_id : c \in ContactsOf(phone)}
        Bound(sid) == sid \in mine /\ sid \in StudentIdFormatOK
    IN  SelectSeq(StudentOrder, Bound)

\* the message bodies drawn: the menu keywords, free text, the running term
\* and a term that has not started
Messages == {"menu", "1", "2", "3", "help", "hello", "2026-1", "2026-2"}

\* what the calls of sms_client do during a turn: they answer, or one raises
AccountOutcomes == {"ok", "RateLimitException", "ValueError", "RequestException", "Exception"}

\* the sums of the bills and of the payments the SMS API reports for a student
TurnFees == {0, 1000}
TurnPayments == {400, 1000}

AwaitingStates == {"awaiting_term_balance", "awaiting_term_statement", "awaiting_term_gatepass"}

\* what a branch of the handler leaves: the state written, the reply, the
\* exception that was caught, and whether the gate-pass loop is entered instead
Outcome(state, reply, raised) ==
    [state |-> state, write |-> TRUE, count |-> FALSE, reply |-> reply, raised |-> raised,
     error |-> FALSE, loop |-> FALSE]
\* a branch that returns without writing the row
Unwritten(reply) ==
    [state |-> "", write |-> FALSE, count |-> FALSE, reply |-> reply, raised |-> "none",
     error |-> FALSE, loop |-> FALSE]
\* a branch of an unregistered phone that counts the query: query_count += 1
\* and last_updated = current_time, the state is left alone
Counted(reply) ==
    [state |-> "", write |-> FALSE, count |-> TRUE, reply |-> reply, raised |-> "none",
     error |-> FALSE, loop |-> FALSE]
\* an exception that no handler catches: nothing is written, nothing is replied
Uncaught(exc) ==
    [state |-> "", write |-> FALSE, count |-> FALSE, reply |-> NoReply, raised |-> exc,
     error |-> TRUE, loop |-> FALSE]
EnterLoop ==
    [state |-> "", write |-> FALSE, count |-> FALSE, reply |-> NoReply, raised |-> "none",
     error |-> FALSE, loop |-> TRUE]

\* lines 250-363: "request statement" from the main menu
StatementBranch(default_term, today, fetch) ==
    IF DayOf(TERM_START_DATES(default_term)) > today
    THEN Outcome("main_menu", Reply("term_not_started", FALSE, TRUE), "none")
    ELSE CASE fetch = "ok" -> Outcome("main_menu", Reply("statement", FALSE, FALSE), "none")
           [] fetch = "RateLimitException" ->
                Outcome("main_menu", Reply("too_many_requests", FALSE, TRUE), fetch)
           [] fetch = "ValueError" ->
                Outcome("main_menu", Reply("no_statements_found", TRUE, TRUE), fetch)
           [] fetch = "RequestException" ->
                Outcome("main_menu", Reply("error_fetching_statements", TRUE, TRUE), fetch)
           [] OTHER -> Outcome("main_menu", Reply("unexpected_error", TRUE, TRUE), fetch)

\* "get gate pass" without the test of lines 396-400
GatePassBranchNoEndCheck(default_term, today) ==
    IF default_term = NoTerm
    THEN Outcome("main_menu", Reply("schools_reopen", FALSE, TRUE), "none")
    ELSE IF default_term \notin ConfiguredTerms
    THEN Outcome("awaiting_term_gatepass", Reply("term_prompt", FALSE, TRUE), "none")
    ELSE IF DayOf(TERM_START_DATES(default_term)) > today
    THEN Outcome("awaiting_term_gatepass", Reply("term_not_started", FALSE, TRUE), "none")
    ELSE EnterLoop

\* lines 365-400: "get gate pass" from the main menu, up to the loop: the
\* reply for the holidays when there is no default term (lines 368-378), the
\* prompt for a term that is not configured (380-385) or has not started
\* (390-394), the denial for a term that has ended (396-400)
GatePassBranch(default_term, today) ==
    IF default_term = NoTerm
    THEN Outcome("main_menu", Reply("schools_reopen", FALSE, TRUE), "none")
    ELSE IF default_term \notin ConfiguredTerms
    THEN Outcome("awaiting_term_gatepass", Reply("term_prompt", FALSE, TRUE), "none")
    ELSE IF DayOf(TERM_START_DATES(default_term)) > today
    THEN Outcome("awaiting_term_gatepass", Reply("term_not_started", FALSE, TRUE), "none")
    ELSE IF today > DayOf(TERM_END_DATES(default_term))
    THEN Outcome("main_menu", Reply("gate_pass_request_denied", FALSE, TRUE), "none")
    ELSE EnterLoop

\* lines 474-497: the handlers around the gate-pass branch
GatePassExcept(exc) ==
    CASE exc = "RateLimitException" ->
            Outcome("main_menu", Reply("too_many_requests", FALSE, TRUE), exc)
      [] exc = "ValueError" ->
            Outcome("main_menu", Reply("no_financial_data", TRUE, TRUE), exc)
      [] exc = "RequestException" ->
            Outcome("main_menu", Reply("failed_to_generate_gate_passes", TRUE, TRUE), exc)
      [] OTHER -> Outcome("main_menu", Reply("unexpected_error", TRUE, TRUE), exc)

\* lines 508-568: a reply to a prompt for a term.  Only awaiting_term_balance
\* has a handler (lines 520-557); in the two other states a term that has
\* started falls out of the try and the function returns None
AwaitingBranch(state0, message, today, fetch) ==
    IF message \notin ConfiguredTerms
    THEN Unwritten(Reply("invalid_term", FALSE, FALSE))
    ELSE IF DayOf(TERM_START_DATES(message)) > today
    THEN Outcome("main_menu", Reply("term_not_started", FALSE, TRUE), "none")
    ELSE IF state0 = "awaiting_term_balance"
    THEN IF fetch = "ok"
         THEN Outcome("main_menu", Reply("balance", FALSE, FALSE), "none")
         ELSE Outcome("main_menu", Reply("error_fetching_for_term", FALSE, TRUE), fetch)
    ELSE Unwritten(NoReply)

\* the outcomes of sms_client that a turn can meet before the gate-pass loop:
\* it is called for a statement (lines 270-272) and for a balance (523-525)
CallsAccount(state0, message, student_ids, today) ==
    /\ student_ids # <<>>
    /\ \/ /\ state0 = "main_menu" /\ message = "2"
          /\ DayOf(TERM_START_DATES(DefaultTerm(today))) <= today
       \/ /\ state0 = "awaiting_term_balance" /\ message \in ConfiguredTerms
          /\ DayOf(TERM_START_DATES(message)) <= today

\* the daily limit of lines 153 (webhook_handler) and 246 (whatsapp_menu)
QueryLimit == 5

\* the reply "Invalid state" without the reset of the state
InvalidStateKept == Unwritten(Reply("invalid_state", FALSE, TRUE))

\* lines 570-574 (webhook_handler) and 1618-1628 (whatsapp_menu): a state
\* that is neither main_menu nor awaiting a term is set back to main_menu
InvalidState == Outcome("main_menu", Reply("invalid_state", FALSE, TRUE), "none")

\* lines 160-215: the phone has no contact.  "menu" and "5"/"help" are
\* answered from fixed texts; the four topics and free text are counted and
\* answered by the AI collaborator
GuestBranch(message) ==
    CASE message = "menu" -> Unwritten(Reply("unregistered_menu", FALSE, TRUE))
      [] message \in {"5", "help"} -> Unwritten(Reply("unregistered_help", TRUE, TRUE))
      [] OTHER -> Counted(Reply("ai_response", FALSE, FALSE))

\* lines 148-154, 160-226 and 228-574: the limit of a row in state
\* unregistered_menu (query_date is no attribute of the row, so the counter is
\* never reset), the turn of a phone without contact, and the turn of a
\* registered phone
Handle(row, message, has_contacts, student_ids, today, fetch) ==
    LET default_term == DefaultTerm(today)
        state0 == row.state
    IN  IF state0 = "unregistered_menu" /\ row.query_count >= QueryLimit
        THEN Unwritten(Reply("daily_limit_reached", TRUE, FALSE))
        ELSE IF ~has_contacts
        THEN GuestBranch(message)
        ELSE IF student_ids = <<>>
        THEN Outcome("main_menu", Reply("no_valid_student_ids", TRUE, TRUE), "none")
        ELSE IF state0 = "main_menu"
        THEN CASE message = "menu" -> Outcome("main_menu", Reply("greeting", FALSE, TRUE), "none")
               [] message = "1" ->
                    Outcome("awaiting_term_balance", Reply("term_prompt", FALSE, FALSE), "none")
               [] message = "2" -> StatementBranch(default_term, today, fetch)
               [] message = "3" -> GatePassBranch(default_term, today)
               [] message = "help" -> Outcome("main_menu", Reply("help", TRUE, TRUE), "none")
               [] OTHER -> Unwritten(Reply("invalid_input", FALSE, TRUE))
        ELSE IF state0 \in AwaitingStates
        THEN AwaitingBranch(state0, message, today, fetch)
        ELSE InvalidState

\* the turn ends: the state and last_updated = current_time are committed by
\* the branches that write them, and the reply is returned
EndTurn(t, row, out) ==
    /\ user_states' = [user_states EXCEPT ![t.phone] =
                          IF out.write
                          THEN [row EXCEPT !.state = out.state, !.last_updated = now]
                          ELSE IF out.count
                          THEN [row EXCEPT !.query_count = @ + 1, !.last_updated = now]
                          ELSE row]
    /\ turn' = [t EXCEPT !.pc = "replied", !.reply = out.reply, !.raised = out.raised,
                         !.error = out.error]

\* the largest query_count a row is let to reach
MaxQueries == 7

\* a message arrives: lines 132-142 create the row of a new phone in state
\* main_menu; the handler runs to its return or to the gate-pass loop.  The
\* loop is entered while the limiter has counted few enough calls for one
\* more call per student
ReceiveMessageFrom(p, phones, messages, maxCalls) ==
    /\ p \in workers
    /\ pc[p] = "idle"
    /\ turn.pc = "idle"
    /\ \E phone \in phones, message \in messages :
       LET row == IF user_states[phone] = NoRow THEN UserState("main_menu", now, 0)
                  ELSE user_states[phone]
           state0 == row.state
           student_ids == StudentIdsOf(phone)
       IN
       \E fetch \in (IF CallsAccount(state0, message, student_ids, DayOf(now))
                     THEN AccountOutcomes ELSE {"ok"}) :
          LET out == Handle(row, message, ContactsOf(phone) # {}, student_ids, DayOf(now),
                            fetch)
              t == [TurnIdle EXCEPT !.impl = HookImpl, !.phone = phone, !.message = message,
                                    !.state0 = state0, !.count0 = row.query_count,
                                    !.updated0 = row.last_updated,
                                    !.term = DefaultTerm(DayOf(now)),
                                    !.student_ids = student_ids]
          IN  IF out.loop
              THEN /\ TotalCalls + Len(student_ids) <= maxCalls
                   /\ user_states' = [user_states EXCEPT ![phone] = row]
                   /\ turn' = [t EXCEPT !.pc = "loop", !.i = 1]
              ELSE /\ out.count => row.query_count < MaxQueries
                   /\ EndTurn(t, row, out)
    /\ UNCHANGED <<probe, ledger, scans, sync, reminded, now, workers, contacts, passes, logs, calls, pc, req, loc, result>>

ReceiveMessage(p) == ReceiveMessageFrom(p, Phones, Messages, MaxCalls)

\* lines 403-420: the fees and the payments of the next student are fetched
\* and generate_gatepass is called with them and with the phone of the turn;
\* an exception of sms_client ends the turn in a handler of lines 474-497
FetchAccount(p) ==
    /\ p \in workers
    /\ turn.pc = "loop"
    /\ \E fetch \in AccountOutcomes :
          IF fetch # "ok"
          THEN /\ EndTurn(turn, user_states[turn.phone], GatePassExcept(fetch))
               /\ UNCHANGED <<pc, req, loc, result>>
          ELSE /\ \E total_fees \in TurnFees, total_paid \in TurnPayments :
                     StartCall(p, [student_id |-> turn.student_ids[turn.i],
                                   term |-> turn.term,
                                   payment_amount |-> total_paid,
                                   total_fees |-> total_fees,
                                   requesting_whatsapp_number |-> turn.phone])
               /\ turn' = [turn EXCEPT !.pc = "call"]
               /\ UNCHANGED user_states
    /\ UNCHANGED <<probe, ledger, scans, sync, reminded, now, workers, contacts, passes, logs, calls>>

\* line 429: "already valid" in status_msg or "resent" in status_msg, for
\* each status generate_gatepass returns with code 200
StatusSaysReused(status) == status \in {"Gate pass already valid and resent"}

\* the "error" text of a result that is not 200 names a contact: line 269
\* (404) gives the address; lines 44 and 290 say "contact support"; the
\* texts of lines 239-257, 279, 284 and 413-603 and the default of line 446
\* for the 429 result, which has no "error" key, name nobody
ErrorNamesContact(p) ==
    \/ result[p].code = 404
    \/ /\ result[p].code = 400
       /\ InputsValid(req[p])
       /\ loc[p].whatsapp_number # NoNumber

\* lines 424-450: the line of the reply for the student just served
GatepassLine(p) ==
    [student_id |-> req[p].student_id,
     code |-> result[p].code,
     status |-> result[p].status,
     kind |-> IF result[p].code = 200
              THEN IF StatusSaysReused(result[p].status) THEN "already_valid" ELSE "issued"
              ELSE "error",
     contact |-> result[p].code # 200 /\ ErrorNamesContact(p)]

\* line 468: the reply "Gate pass issued!" around the lines; the text around
\* them names no contact
Aggregated(lines) ==
    Reply("gate_pass_issued", \E k \in 1 .. Len(lines) : lines[k].contact, FALSE)

\* lines 422-472: generate_gatepass has returned and its result becomes a
\* line; after the last student the lines are joined, the state is main_menu
\* and the turn ends
CollectResult(p) ==
    /\ p \in workers
    /\ turn.pc = "call"
    /\ pc[p] = "done"
    /\ LET lines == Append(turn.lines, GatepassLine(p))
       IN  IF turn.i < Len(turn.student_ids)
           THEN /\ turn' = [turn EXCEPT !.pc = "loop", !.i = @ + 1, !.lines = lines]
                /\ UNCHANGED user_states
           ELSE EndTurn([turn EXCEPT !.lines = lines], user_states[turn.phone],
                        Outcome("main_menu", Aggregated(lines), "none"))
    /\ pc' = [pc EXCEPT ![p] = "idle"]
    /\ req' = [req EXCEPT ![p] = ReqInit]
    /\ loc' = [loc EXCEPT ![p] = LocInit]
    /\ result' = [result EXCEPT ![p] = NoResult]
    /\ UNCHANGED <<probe, ledger, scans, sync, reminded, now, workers, contacts, passes, logs, calls>>

\* process_cloud_api_message, lines 640-656: the reply the handler returned
\* is sent to the phone (a handler that returned None sends nothing) and the
\* turn is over
SendReply ==
    /\ turn.pc = "replied"
    /\ turn.impl = HookImpl
    /\ turn' = TurnIdle
    /\ UNCHANGED <<user_states, probe, ledger, scans, sync, reminded, now, workers, contacts, passes, logs, calls,
                   pc, req, loc, result>>

(***************************************************************************)
(* The specification of the conversation: one worker handles the messages  *)
(* of the two phones, one turn at a time                                   *)
(***************************************************************************)
TurnInit ==
    /\ probe = ProbeIdle
    /\ now = At(2025, 8, 15, 1)
    /\ workers = {1}
    /\ contacts = TurnContacts
    /\ passes = {}
    /\ logs = {}
    /\ calls = [k \in CallKeys |-> [n |-> 0, blocked |-> FALSE]]
    /\ pc = [p \in Procs |-> "idle"]
    /\ req = [p \in Procs |-> ReqInit]
    /\ loc = [p \in Procs |-> LocInit]
    /\ result = [p \in Procs |-> NoResult]
    /\ user_states = [ph \in RowPhones |-> NoRow]
    /\ reminded = [ph \in RowPhones |-> NoReminder]
    /\ ledger = LedgerInit
    /\ scans = ScansInit
    /\ sync = SyncInit
    /\ turn = TurnIdle

TurnTick == TickIn(TurnInstants)
TurnNext ==
    \/ TurnTick
    \/ SendReply
    \/ \E p \in Procs : ReceiveMessage(p) \/ FetchAccount(p) \/ CollectResult(p) \/ Serve(p)
SpecTurn == TurnInit /\ [][TurnNext]_vars

(***************************************************************************)
(* The view whatsapp_menu of routes/whatsapp.py: the second handler of an  *)
(* inbound message.  It reads and writes the same rows of user_states and  *)
(* issues gate passes by a POST to /generate-gatepass                      *)
(***************************************************************************)

\* lines 255 and 326: the contacts whose preferred number is the phone, and
\* the student ids among them that match r'^SSC\d+$'
PreferredOf(phone) == {c \in contacts : c.preferred_phone_number = phone}
MenuStudentIdsOf(phone) ==
    LET mine == {c.student_id : c \in PreferredOf(phone)}
        Bound(sid) == sid \in mine /\ sid \in StudentIdFormatOK
    IN  SelectSeq(StudentOrder, Bound)

\* lines 342-348: the running term, and "2025-2" when no term is running
MenuDefaultTerm(today) ==
    IF RunningTerm(today) = NoTerm THEN "2025-2" ELSE RunningTerm(today)

\* config.get_most_recent_completed_term: the term with the latest end date
\* before today, None when no term has ended
MostRecentCompletedTerm(today) ==
    LET completed == {term \in ConfiguredTerms : DayOf(TERM_END_DATES(term)) < today}
    IN  IF completed = {} THEN NoTerm
        ELSE CHOOSE term \in completed :
                \A other \in completed : TERM_END_DATES(other) <= TERM_END_DATES(term)

\* what the outside world does during a turn of whatsapp_menu: the number is
\* not on WhatsApp (line 216), a call of sms_client raises, the statements
\* are not delivered, or everything answers
MenuOutcomes == AccountOutcomes \cup {"not_on_whatsapp", "not_sent"}

\* the handlers of lines 620-667, 811-857, 1214-1261, 1409-1456 and
\* 1561-1607; what names the failure in the ValueError and RequestException
\* replies
MenuExcept(exc, value_error, request_error) ==
    CASE exc = "RateLimitException" ->
            Outcome("main_menu", Reply("too_many_requests", FALSE, TRUE), exc)
      [] exc = "ValueError" -> Outcome("main_menu", Reply(value_error, TRUE, TRUE), exc)
      [] exc = "RequestException" -> Outcome("main_menu", Reply(request_error, TRUE, TRUE), exc)
      [] OTHER -> Outcome("main_menu", Reply("unexpected_error", TRUE, TRUE), exc)

\* the handlers of lines 450-472, 945-967 and 1103-1125: RateLimitException
\* and Exception only
MenuExceptShort(exc) ==
    IF exc = "RateLimitException"
    THEN Outcome("main_menu", Reply("too_many_requests", FALSE, TRUE), exc)
    ELSE Outcome("main_menu", Reply("unexpected_error", TRUE, TRUE), exc)

\* lines 359-472: "view balance" from the main menu, for the running term or
\* for the term that ended last
MenuBalance(today, ext) ==
    LET term == IF RunningTerm(today) # NoTerm THEN RunningTerm(today)
                ELSE MostRecentCompletedTerm(today)
    IN  IF term = NoTerm
        THEN Unwritten(Reply("no_previous_term", TRUE, TRUE))
        ELSE IF ext \in {"ok", "not_sent"}
        THEN Outcome("main_menu", Reply("balance", FALSE, TRUE), "none")
        ELSE MenuExceptShort(ext)

\* lines 500-618, 990-1101 and 1290-1407: the statements of the students are
\* fetched and sent
MenuStatements(ext, full_handlers) ==
    CASE ext = "ok" -> Outcome("main_menu", Reply("statements_sent", FALSE, TRUE), "none")
      [] ext = "not_sent" ->
            Outcome("main_menu", Reply("failed_to_send_statements", TRUE, TRUE), "none")
      [] OTHER -> IF full_handlers
                  THEN MenuExcept(ext, "no_statements_found", "error_fetching_statements")
                  ELSE MenuExceptShort(ext)

\* lines 474-667: "request statement" from the main menu
MenuStatement(default_term, today, ext) ==
    IF default_term \notin ConfiguredTerms
    THEN Outcome("awaiting_term_statement", Reply("term_prompt", FALSE, TRUE), "none")
    ELSE IF DayOf(TERM_START_DATES(default_term)) > today
    THEN Outcome("main_menu", Reply("term_not_started", FALSE, TRUE), "none")
    ELSE MenuStatements(ext, TRUE)

\* lines 669-719: "get gate pass" from the main menu, up to the loop.  The
\* default term is computed again, without the fallback
MenuGatePass(today) ==
    LET default_term == RunningTerm(today)
    IN  IF default_term = NoTerm
        THEN Outcome("main_menu", Reply("schools_reopen", FALSE, TRUE), "none")
        ELSE IF default_term \notin ConfiguredTerms
        THEN Outcome("awaiting_term_gatepass", Reply("term_prompt", FALSE, TRUE), "none")
        ELSE IF DayOf(TERM_START_DATES(default_term)) > today
        THEN Outcome("awaiting_term_gatepass", Reply("term_not_started", FALSE, TRUE), "none")
        ELSE EnterLoop

\* lines 871-967: a term code typed in the main menu shows the balance of the
\* term
MenuTermCode(term, today, ext) ==
    IF DayOf(TERM_START_DATES(term)) > today
    THEN Unwritten(Reply("term_not_started", FALSE, TRUE))
    ELSE IF ext \in {"ok", "not_sent"}
    THEN Outcome("main_menu", Reply("balance", FALSE, TRUE), "none")
    ELSE MenuExceptShort(ext)

\* line 971: the word of a message body "statement <word>"
StatementWord(message) ==
    CASE message = "statement 2026-1" -> "2026-1"
      [] message = "statement 2030-1" -> "2030-1"
      [] OTHER -> ""

\* lines 969-1126: "statement <term>" typed in the main menu.  The test of
\* line 972 has no else: for a word that is no configured term the view
\* reaches its end and returns None, which Flask turns into a TypeError
MenuStatementFor(term, today, ext) ==
    IF term \in ConfiguredTerms
    THEN IF DayOf(TERM_START_DATES(term)) > today
         THEN Outcome("main_menu", Reply("term_not_started", FALSE, TRUE), "none")
         ELSE MenuStatements(ext, FALSE)
    ELSE Uncaught("TypeError")

\* lines 350-1135: the main menu
MenuMain(message, default_term, today, ext) ==
    CASE message = "menu" -> Unwritten(Reply("greeting", FALSE, TRUE))
      [] message \in {"1", "balance", "view balance"} -> MenuBalance(today, ext)
      [] message \in {"2", "statement", "request statement"} ->
            MenuStatement(default_term, today, ext)
      [] message \in {"3", "gate pass", "get gate pass"} -> MenuGatePass(today)
      [] message = "help" -> Outcome("main_menu", Reply("help", TRUE, TRUE), "none")
      [] message \in ConfiguredTerms -> MenuTermCode(message, today, ext)
      [] StatementWord(message) # "" -> MenuStatementFor(StatementWord(message), today, ext)
      [] OTHER -> Unwritten(Reply("invalid_input", FALSE, TRUE))

\* lines 1137-1616: a reply to a prompt for a term.  In awaiting_term_gatepass
\* a term that is not running today is refused (lines 1474-1490)
MenuAwaiting(state0, message, today, ext) ==
    IF message \notin ConfiguredTerms
    THEN Unwritten(Reply("invalid_term", FALSE, FALSE))
    ELSE IF state0 = "awaiting_term_gatepass"
    THEN IF ~(DayOf(TERM_START_DATES(message)) <= today
              /\ today <= DayOf(TERM_END_DATES(message)))
         THEN Outcome("main_menu", Reply("term_not_active", FALSE, TRUE), "none")
         ELSE EnterLoop
    ELSE IF DayOf(TERM_START_DATES(message)) > today
    THEN Outcome("main_menu", Reply("term_not_started", FALSE, TRUE), "none")
    ELSE IF state0 = "awaiting_term_balance"
    THEN IF ext \in {"ok", "not_sent"}
         THEN Outcome("main_menu", Reply("balance", FALSE, TRUE), "none")
         ELSE MenuExcept(ext, "no_statements_found", "error_fetching_balances")
    ELSE MenuStatements(ext, TRUE)

\* lines 216-1641: the view from the check of the number to its return or to
\* a gate-pass loop.  UserState has no column query_date: the constructor of
\* line 227 raises TypeError for a phone without row and line 242 raises
\* AttributeError for a row in state unregistered_menu, both before the try
Menu(has_row, row, message, has_contacts, student_ids, today, ext) ==
    IF ext = "not_on_whatsapp"
    THEN Unwritten(Reply("not_on_whatsapp", TRUE, FALSE))
    ELSE IF ~has_row
    THEN Uncaught("TypeError")
    ELSE IF row.state = "unregistered_menu"
    THEN Uncaught("AttributeError")
    ELSE IF ~has_contacts
    THEN GuestBranch(message)
    ELSE IF student_ids = <<>>
    THEN Outcome("main_menu", Reply("no_valid_student_ids", TRUE, TRUE), "none")
    ELSE IF row.state = "main_menu"
    THEN MenuMain(message, MenuDefaultTerm(today), today, ext)
    ELSE IF row.state \in AwaitingStates
    THEN MenuAwaiting(row.state, message, today, ext)
    ELSE InvalidState

\* the turn needs an answer of the outside world beyond the number check
MenuCallsOut(row, message, student_ids, today) ==
    /\ student_ids # <<>>
    /\ \/ /\ row.state = "main_menu"
          /\ \/ message \in {"1", "2"}
             \/ message \in ConfiguredTerms /\ DayOf(TERM_START_DATES(message)) <= today
             \/ StatementWord(message) \in ConfiguredTerms
       \/ /\ row.state \in {"awaiting_term_balance", "awaiting_term_statement"}
          /\ message \in ConfiguredTerms
          /\ DayOf(TERM_START_DATES(message)) <= today

\* the message bodies drawn for the view: those of Messages and two
\* "statement <word>" bodies, one with a term and one with another word
MenuMessages == Messages \cup {"statement 2026-1", "statement 2030-1"}

\* a request arrives at /whatsapp-incoming
MenuRequestFrom(p, phones, messages, maxCalls) ==
    /\ p \in workers
    /\ pc[p] = "idle"
    /\ turn.pc = "idle"
    /\ \E phone \in phones, message \in messages :
       LET row == user_states[phone]
           has_row == row # NoRow
           student_ids == MenuStudentIdsOf(phone)
           today == DayOf(now)
       IN
       \E ext \in (IF has_row /\ MenuCallsOut(row, message, student_ids, today)
                   THEN MenuOutcomes ELSE {"ok", "not_on_whatsapp"}) :
          LET out == Menu(has_row, row, message, PreferredOf(phone) # {}, student_ids,
                          today, ext)
              t == [TurnIdle EXCEPT !.impl = MenuImpl, !.phone = phone, !.message = message,
                                    !.state0 = row.state, !.count0 = row.query_count,
                                    !.updated0 = row.last_updated,
                                    !.term = IF row.state = "main_menu"
                                             THEN RunningTerm(today) ELSE message,
                                    !.student_ids = student_ids]
          IN  IF out.loop
              THEN /\ TotalCalls + Len(student_ids) <= maxCalls
                   /\ turn' = [t EXCEPT !.pc = "menu_loop", !.i = 1]
                   /\ UNCHANGED user_states
              ELSE /\ out.count => row.query_count < MaxQueries
                   /\ EndTurn(t, row, out)
    /\ UNCHANGED <<probe, ledger, scans, sync, reminded, now, workers, contacts, passes, logs, calls, pc, req, loc, result>>

\* lines 796-801 and 1547-1551: the reply around the lines ends with "If not
\* received, ... or contact admin@..." and the menu; the header of lines
\* 792-795 says "Gate pass issued!" when a line reports a pass and "Gate Pass
\* Status:" otherwise, the reply of lines 1547-1551 has no header
MenuAggregated(state0, lines) ==
    Reply(IF state0 # "main_menu" THEN "gate_pass_lines"
          ELSE IF \E k \in 1 .. Len(lines) : lines[k].kind # "error"
          THEN "gate_pass_issued" ELSE "gate_pass_status",
          TRUE, TRUE)

\* the end of the loop: lines 805-809 and 1555-1559
MenuEndLoop(lines) ==
    EndTurn([turn EXCEPT !.lines = lines], user_states[turn.phone],
            Outcome("main_menu", MenuAggregated(turn.state0, lines), "none"))

\* lines 736-744: the line for a student whose fees are not posted
FeesNotPostedLine(student_id) ==
    [student_id |-> student_id, code |-> 0, status |-> "Fees Not Yet Posted",
     kind |-> "error", contact |-> TRUE]

\* lines 722-763 and 1493-1511: the fees and the payments of the next
\* student are fetched.  From the main menu a student without posted fees
\* gets a line and no pass (lines 736-744); otherwise the sums are posted to
\* /generate-gatepass, which reads a total_fees of 0 as 1000.0
\* (routes/gatepass.py) and calls generate_gatepass without the phone
MenuFetchAccount(p) ==
    /\ p \in workers
    /\ turn.pc = "menu_loop"
    /\ \E fetch \in AccountOutcomes :
          IF fetch # "ok"
          THEN /\ EndTurn(turn, user_states[turn.phone],
                          MenuExcept(fetch, "no_financial_data",
                                     "failed_to_generate_gate_passes"))
               /\ UNCHANGED <<pc, req, loc, result>>
          ELSE \E total_fees \in TurnFees, total_paid \in TurnPayments :
                  IF turn.state0 = "main_menu" /\ total_fees <= 0
                  THEN /\ LET lines == Append(turn.lines,
                                              FeesNotPostedLine(turn.student_ids[turn.i]))
                          IN  IF turn.i < Len(turn.student_ids)
                              THEN /\ turn' = [turn EXCEPT !.i = @ + 1, !.lines = lines]
                                   /\ UNCHANGED user_states
                              ELSE MenuEndLoop(lines)
                       /\ UNCHANGED <<pc, req, loc, result>>
                  ELSE /\ StartCall(p, [student_id |-> turn.student_ids[turn.i],
                                        term |-> turn.term,
                                        payment_amount |-> total_paid,
                                        total_fees |-> IF total_fees = 0 THEN 1000
                                                       ELSE total_fees,
                                        requesting_whatsapp_number |-> NoNumber])
                       /\ turn' = [turn EXCEPT !.pc = "menu_call"]
                       /\ UNCHANGED user_states
    /\ UNCHANGED <<probe, ledger, scans, sync, reminded, now, workers, contacts, passes, logs, calls>>

\* lines 765-794 and 1513-1540: the answer of /generate-gatepass becomes a
\* line; after the last student the reply is built, the state is main_menu
\* and the view returns
MenuCollectResult(p) ==
    /\ p \in workers
    /\ turn.pc = "menu_call"
    /\ pc[p] = "done"
    /\ LET lines == Append(turn.lines, GatepassLine(p))
       IN  IF turn.i < Len(turn.student_ids)
           THEN /\ turn' = [turn EXCEPT !.pc = "menu_loop", !.i = @ + 1, !.lines = lines]
                /\ UNCHANGED user_states
           ELSE MenuEndLoop(lines)
    /\ pc' = [pc EXCEPT ![p] = "idle"]
    /\ req' = [req EXCEPT ![p] = ReqInit]
    /\ loc' = [loc EXCEPT ![p] = LocInit]
    /\ result' = [result EXCEPT ![p] = NoResult]
    /\ UNCHANGED <<probe, ledger, scans, sync, reminded, now, workers, contacts, passes, logs, calls>>

\* the Response of the view, or the error page of Flask, goes back to the
\* sender and the turn is over
MenuRespond ==
    /\ turn.pc = "replied"
    /\ turn.impl = MenuImpl
    /\ turn' = TurnIdle
    /\ UNCHANGED <<user_states, probe, ledger, scans, sync, reminded, now, workers, contacts, passes, logs, calls,
                   pc, req, loc, result>>

(***************************************************************************)
(* Balance reminders: services/reminder_service.py send_balance_reminders, *)
(* called for each student in debt by utils/scheduler.py and by the route  *)
(* /trigger-reminders, and services/reminder_logic.py should_send_reminder *)
(***************************************************************************)

\* config.weeks_remaining: max(0, (end - now).days // 7), at instant t
WeeksRemaining(term, t) ==
    IF TERM_END_DATES(term) <= t THEN 0
    ELSE ((TERM_END_DATES(term) - t) \div TicksPerDay) \div 7

\* config.weeks_elapsed: max(0, (now - start).days // 7), at instant t
WeeksElapsed(term, t) ==
    IF t <= TERM_START_DATES(term) THEN 0
    ELSE ((t - TERM_START_DATES(term)) \div TicksPerDay) \div 7

\* the minimum number of days of lines 38-46
FinalInterval == 2
LateInterval == 4
WeeklyInterval == 7

\* a variant of should_send_reminder that sends daily in the last two weeks
should_send_reminder_daily(row, term, t) ==
    IF row = NoRow THEN TRUE
    ELSE IF row.last_updated = NoTime THEN TRUE
    ELSE LET days_since_last == (t - row.last_updated) \div TicksPerDay
         IN  IF WeeksRemaining(term, t) <= 2 THEN days_since_last >= FinalInterval - 1
             ELSE IF WeeksRemaining(term, t) <= 4 THEN days_since_last >= LateInterval
             ELSE IF WeeksElapsed(term, t) >= 2 THEN days_since_last >= WeeklyInterval
             ELSE FALSE

\* reminder_logic.should_send_reminder(user_state, term) at instant t
should_send_reminder(row, term, t) ==
    IF row = NoRow THEN TRUE
    ELSE IF row.last_updated = NoTime THEN TRUE
    ELSE LET days_since_last == (t - row.last_updated) \div TicksPerDay
         IN  IF WeeksRemaining(term, t) <= 2 THEN days_since_last >= FinalInterval
             ELSE IF WeeksRemaining(term, t) <= 4 THEN days_since_last >= LateInterval
             ELSE IF WeeksElapsed(term, t) >= 2 THEN days_since_last >= WeeklyInterval
             ELSE FALSE

\* the outstanding balance of the student, cached or reported by the SMS API
ReminderBalances == {0, 600}

\* the term arguments: a configured term, the next one, and one that is not
\* configured
ReminderTerms == {"2026-1", "2026-2", "2030-1"}

\* update_or_create_contact, lines 52-60: the preferred number of the contact
\* becomes the student's mobile number of the profile
SyncedContact(contact) ==
    [contact EXCEPT !.preferred_phone_number = contact.student_mobile]

\* a variant of ReminderBooked that writes the row before the message is sent
ReminderBookedFirst(user_state, sent, t) ==
    IF user_state = NoRow
    THEN [UserState("reminder_sent", t, 0) EXCEPT !.reminder_count = 1]
    ELSE [user_state EXCEPT !.state = "reminder_sent", !.last_updated = t,
                            !.reminder_count = @ + 1]

\* lines 160-192: the row of the phone after the attempts to send.  A send
\* that raised returns at line 173 or 176 and the row is as it was; after a
\* send that returned, lines 179-192 set state reminder_sent, last_updated
\* now and reminder_count one more, or add the row with reminder_count 1
ReminderBooked(user_state, sent, t) ==
    IF ~sent THEN user_state
    ELSE IF user_state = NoRow
    THEN [UserState("reminder_sent", t, 0) EXCEPT !.reminder_count = 1]
    ELSE [user_state EXCEPT !.state = "reminder_sent", !.last_updated = t,
                            !.reminder_count = @ + 1]

\* send_balance_reminders(student_id, term): lines 102-107 refuse a term that
\* is not configured or has ended; lines 114-142 take the contact from the
\* table when it was updated within a day and fetch the profile otherwise;
\* lines 148-155 stop for a balance that is not positive and when
\* should_send_reminder says no; lines 160-176 send the message; lines
\* 178-192 write the row of the phone: state reminder_sent, last_updated now
SendReminderIn(students, terms) ==
    /\ turn.pc = "idle"
    /\ \A p \in Procs : pc[p] \in {"idle", "done"}
    /\ \E student_id \in students, term \in terms,
          lookup \in {"cached", "fetched", "no_profile"},
          balance \in ReminderBalances, delivery \in {"sent", "raises"} :
       LET contact == CHOOSE c \in contacts : c.student_id = student_id
           found == IF lookup = "fetched" THEN SyncedContact(contact) ELSE contact
           phone_number == found.preferred_phone_number
           user_state == user_states[phone_number]
       IN  IF \/ term \notin ConfiguredTerms
              \/ now > TERM_END_DATES(term)
              \/ lookup = "no_profile"
           THEN UNCHANGED <<contacts, user_states, reminded>>
           ELSE /\ contacts' = (contacts \ {contact}) \cup {found}
                /\ IF \/ balance <= 0
                      \/ ~should_send_reminder(user_state, term, now)
                   THEN UNCHANGED <<user_states, reminded>>
                   ELSE /\ user_states' =
                              [user_states EXCEPT ![phone_number] =
                                  ReminderBooked(user_state, delivery = "sent", now)]
                        /\ reminded' =
                              IF delivery = "sent"
                              THEN [reminded EXCEPT ![phone_number] =
                                       [at |-> now, term |-> term, prev |-> @.at,
                                        n |-> @.n + 1]]
                              ELSE reminded
    /\ UNCHANGED <<probe, ledger, scans, sync, now, workers, passes, logs, calls, pc, req, loc, result, turn>>

(***************************************************************************)
(* The specification of the sessions: the messages of a registered phone   *)
(* are handled by either handler, one turn at a time, and reminders for    *)
(* one of its students are sent between the turns                          *)
(***************************************************************************)
\* the limiter calls after which no further gate-pass loop is entered
SessionCalls == 4

SessionPhones == {RequesterNumber}
SessionReminder == SendReminderIn({"SSC20250002"}, ReminderTerms)
SessionNext ==
    \/ TurnTick
    \/ SendReply
    \/ MenuRespond
    \/ SessionReminder
    \/ \E p \in Procs : \/ ReceiveMessageFrom(p, SessionPhones, MenuMessages, SessionCalls)
                        \/ MenuRequestFrom(p, SessionPhones, MenuMessages, SessionCalls)
                        \/ FetchAccount(p) \/ CollectResult(p)
                        \/ MenuFetchAccount(p) \/ MenuCollectResult(p)
                        \/ Serve(p)
SpecSession == TurnInit /\ [][SessionNext]_vars

(***************************************************************************)
(* The specification of an unregistered phone: its messages are handled by *)
(* either handler on three days                                            *)
(***************************************************************************)
\* the message bodies of the unregistered phone: the menu, a topic, help and
\* free text
GuestMessages == {"menu", "1", "help", "hello"}

GuestNext ==
    \/ TurnTick
    \/ SendReply
    \/ MenuRespond
    \/ \E p \in Procs : \/ ReceiveMessageFrom(p, {GuestNumber}, GuestMessages, 0)
                        \/ MenuRequestFrom(p, {GuestNumber}, GuestMessages, 0)
SpecGuest == TurnInit /\ [][GuestNext]_vars

(***************************************************************************)
(* The specification of the reminders: through term 2026-1 reminders are   *)
(* run for a student of the requester, who now and then asks for the menu  *)
(***************************************************************************)
\* the instants of the reminder runs: in the first two weeks of term 2026-1,
\* around the end of its second week, a week later, around five weeks and
\* three weeks before its end, on its last day and after its end
ReminderInstants ==
    {At(2026, 1, 5, 1), At(2026, 1, 12, 1), At(2026, 1, 18, 0), At(2026, 1, 19, 1),
     At(2026, 1, 25, 0), At(2026, 1, 26, 0), At(2026, 1, 26, 1),
     At(2026, 2, 26, 1), At(2026, 3, 1, 1), At(2026, 3, 2, 0), At(2026, 3, 2, 1),
     At(2026, 3, 13, 1), At(2026, 3, 14, 1), At(2026, 3, 15, 0), At(2026, 3, 15, 1),
     At(2026, 3, 17, 1), At(2026, 4, 2, 0), At(2026, 4, 2, 1)}

ReminderInit ==
    /\ probe = ProbeIdle
    /\ now = At(2026, 1, 5, 1)
    /\ workers = {1}
    /\ contacts = TurnContacts
    /\ passes = {}
    /\ logs = {}
    /\ calls = [k \in CallKeys |-> [n |-> 0, blocked |-> FALSE]]
    /\ pc = [p \in Procs |-> "idle"]
    /\ req = [p \in Procs |-> ReqInit]
    /\ loc = [p \in Procs |-> LocInit]
    /\ result = [p \in Procs |-> NoResult]
    /\ user_states = [ph \in RowPhones |-> NoRow]
    /\ reminded = [ph \in RowPhones |-> NoReminder]
    /\ ledger = LedgerInit
    /\ scans = ScansInit
    /\ sync = SyncInit
    /\ turn = TurnIdle

ReminderTick == TickIn(ReminderInstants)
ReminderRun == SendReminderIn({"SSC20250002"}, {"2026-1", "2026-2"})
ReminderNext ==
    \/ ReminderTick
    \/ ReminderRun
    \/ SendReply
    \/ \E p \in Procs : ReceiveMessageFrom(p, {RequesterNumber}, {"menu"}, 0)
SpecReminder == ReminderInit /\ [][ReminderNext]_vars

(***************************************************************************)
(* Payment confirmations: services/payment_service.py check_new_payments.  *)
(* Amounts are whole dollars.                                              *)
(***************************************************************************)
\* the payments that arrive and the fees of the term
ArrivingAmounts == {300, 500}
PaymentFees == 1000

\* the most confirmations sent to one student
MaxConfirmations == 3
\* the counted limiter calls after which no further check is made
PaymentCalls == 3

\* the term arguments: the running term, a term that has ended and one that
\* is not configured
PaymentTerms == {"2026-1", "2025-3", "2030-1"}

\* a variant of StoredTotal that never stores the new total
StoredTotalNever(last_paid, total_paid, sent) == last_paid

\* lines 232-249: the value of contact.last_total_paid after the branch of
\* the confirmation: the new total when send_whatsapp_message returned, the
\* old one when it raised (line 247 is not reached) or when nothing was sent
StoredTotal(last_paid, total_paid, sent) ==
    IF total_paid > last_paid /\ sent THEN total_paid ELSE last_paid

\* the SMS API records a payment of the student
PaymentArrives ==
    /\ \E sid \in PaymentStudents, amount \in ArrivingAmounts :
          /\ ledger.paid[sid] + amount <= PaymentFees
          /\ ledger' = [ledger EXCEPT !.paid[sid] = @ + amount, !.npay[sid] = @ + 1]
    /\ UNCHANGED <<probe, scans, sync, now, workers, contacts, passes, logs, calls, pc, req,
                   loc, result, user_states, turn, reminded>>

\* check_new_payments(student_id, term) for a student with a contact: lines
\* 25-30 refuse a term that is not configured or has ended; lines 39-42 stop
\* for a fresh cached balance that is settled; lines 150-202 fetch the
\* payments, sum them and stop when nothing was paid; lines 204-224 fetch the
\* statement; lines 232-252 send the confirmation for a total above
\* last_total_paid and store the total; lines 254-260 post a total of at least
\* 50% of the fees to /generate-gatepass
CheckNewPayments(p) ==
    /\ p \in workers
    /\ pc[p] = "idle"
    /\ turn.pc = "idle"
    /\ ledger.pc = "idle"
    /\ TotalCalls < PaymentCalls
    /\ \E sid \in PaymentStudents, term \in PaymentTerms,
          settled \in BOOLEAN, fetch \in {"ok", "raises"}, statement \in {"ok", "raises"},
          delivery \in SendOutcomes :
       LET total_paid == ledger.paid[sid]
           last_paid == ledger.last_total_paid[sid]
           sent == delivery = "sent"
       IN  /\ ledger.nconf[sid] < MaxConfirmations
           /\ IF \/ term \notin ConfiguredTerms
                 \/ now > TERM_END_DATES(term)
                 \/ settled
                 \/ fetch = "raises"
                 \/ total_paid <= 0
                 \/ statement = "raises"
              THEN UNCHANGED <<ledger, pc, req, loc, result>>
              ELSE IF total_paid > last_paid /\ ~sent
              THEN UNCHANGED <<ledger, pc, req, loc, result>>
              ELSE LET confirmed == total_paid > last_paid
                       after == [ledger EXCEPT
                                   !.last_total_paid[sid] =
                                       StoredTotal(last_paid, total_paid, sent),
                                   !.nconf[sid] = IF confirmed THEN @ + 1 ELSE @,
                                   !.conf_total[sid] = IF confirmed THEN total_paid ELSE @,
                                   !.conf_last[sid] = IF confirmed THEN last_paid ELSE @]
                   IN  IF total_paid * 100 >= 50 * PaymentFees
                       THEN /\ ledger' = [after EXCEPT !.pc = "gatepass"]
                            /\ StartCall(p, [student_id |-> sid,
                                             term |-> term,
                                             payment_amount |-> total_paid,
                                             total_fees |-> PaymentFees,
                                             requesting_whatsapp_number |-> NoNumber])
                       ELSE /\ ledger' = after
                            /\ UNCHANGED <<pc, req, loc, result>>
    /\ UNCHANGED <<probe, scans, sync, now, workers, contacts, passes, logs, calls,
                   user_states, turn, reminded>>

\* lines 261-278: /generate-gatepass has answered; for a 200 the notice of
\* the gate pass is sent, and check_new_payments returns
PaymentCollect(p) ==
    /\ p \in workers
    /\ ledger.pc = "gatepass"
    /\ pc[p] = "done"
    /\ ledger' = [ledger EXCEPT !.pc = "idle"]
    /\ pc' = [pc EXCEPT ![p] = "idle"]
    /\ req' = [req EXCEPT ![p] = ReqInit]
    /\ loc' = [loc EXCEPT ![p] = LocInit]
    /\ result' = [result EXCEPT ![p] = NoResult]
    /\ UNCHANGED <<probe, scans, sync, now, workers, contacts, passes, logs, calls,
                   user_states, turn, reminded>>

PaymentInit ==
    /\ probe = ProbeIdle
    /\ now = At(2026, 3, 3, 1)
    /\ workers = {1}
    /\ contacts = TurnContacts
    /\ passes = {}
    /\ logs = {}
    /\ calls = [k \in CallKeys |-> [n |-> 0, blocked |-> FALSE]]
    /\ pc = [p \in Procs |-> "idle"]
    /\ req = [p \in Procs |-> ReqInit]
    /\ loc = [p \in Procs |-> LocInit]
    /\ result = [p \in Procs |-> NoResult]
    /\ user_states = [ph \in RowPhones |-> NoRow]
    /\ reminded = [ph \in RowPhones |-> NoReminder]
    /\ ledger = LedgerInit
    /\ scans = ScansInit
    /\ sync = SyncInit
    /\ turn = TurnIdle

PaymentNext ==
    \/ PaymentArrives
    \/ \E p \in Procs : (CheckNewPayments(p) \/ Serve(p) \/ PaymentCollect(p))
SpecPayment == PaymentInit /\ [][PaymentNext]_vars

(***************************************************************************)
(* Verification of a pass at the gate: verify_gatepass                     *)
(* (services/gatepass_service.py, lines 637-714)                           *)
(***************************************************************************)
\* the rows gate_pass_scans is let to hold
MaxScans == 2
\* the passes and the counted calls after which no further pass is requested
VerifyPasses == 2
VerifyCalls == 2

\* the numbers a pass is looked at from: the registered one, another one, and
\* a missing one
AccessingNumbers == {RegisteredNumber, StaffNumber, NoNumber}

\* verify_gatepass(pass_id, incoming_number): lines 641-646 refuse a missing
\* argument (pass_id 0 stands for a missing one); lines 648-654 answer 404 for
\* an unknown pass; lines 656-665 answer 410 for a pass whose expiry is before
\* now; lines 670-677 add the scan, with matched_registered_number telling
\* whether the numbers agree; lines 679-706 answer status "valid" with code
\* 200, with a warning when the numbers differ
VerifyGatepass ==
    /\ Cardinality(scans.rows) < MaxScans
    /\ \E pass_id \in {g.pass_id : g \in passes} \cup {0, MaxPasses + 9},
          incoming_number \in AccessingNumbers :
       LET found == {g \in passes : g.pass_id = pass_id}
           gate_pass == CHOOSE g \in found : TRUE
           Answer(code, status, scanned) ==
               Verified(code, status, pass_id,
                        IF found = {} THEN "None" ELSE gate_pass.whatsapp_number,
                        incoming_number,
                        IF found = {} THEN 0 ELSE gate_pass.expiry_date, now, scanned)
       IN  IF pass_id = 0 \/ incoming_number = NoNumber
           THEN scans' = [scans EXCEPT !.last = Answer(400, "error", FALSE)]
           ELSE IF found = {}
           THEN scans' = [scans EXCEPT !.last = Answer(404, "error", FALSE)]
           ELSE IF gate_pass.expiry_date < now
           THEN scans' = [scans EXCEPT !.last = Answer(410, "expired", FALSE)]
           ELSE scans' =
                   [rows |-> scans.rows \cup
                                {[id |-> Cardinality(scans.rows) + 1,
                                  pass_id |-> pass_id,
                                  scanned_at |-> now,
                                  scanned_by_number |-> incoming_number,
                                  matched_registered_number |->
                                      gate_pass.whatsapp_number = incoming_number]},
                    last |-> Answer(200, "valid", TRUE)]
    /\ UNCHANGED <<probe, ledger, sync, now, workers, contacts, passes, logs, calls, pc, req,
                   loc, result, user_states, turn, reminded>>

\* the instants of the requests and of the verifications: one in term 2026-1
\* and one after the passes of the term have expired
VerifyInstants == {At(2026, 3, 1, 1), At(2026, 4, 15, 1)}

VerifyTick == TickIn(VerifyInstants)
VerifyRequest(p) == RequestFrom(p, UpgradeInputs, VerifyPasses, VerifyCalls)
VerifyNext ==
    \/ VerifyTick
    \/ VerifyGatepass
    \/ \E p \in Procs : (VerifyRequest(p) \/ Serve(p))
SpecVerify == Init /\ [][VerifyNext]_vars

(***************************************************************************)
(* The profile sync and its re-invocation: lambda_handler, action          *)
(* "sync_profiles" (webhook_handler.py, lines 797-840) and                 *)
(* sync_student_profiles (services/profile_sync_service.py)                *)
(***************************************************************************)
\* the students of the source, a page of page_size of them at a time
SyncRecords == 150
page_size == 60
\* "Max 2 retries per page" (webhook_handler.py, line 817)
MaxRetries == 2
\* the runs after which no further invocation is taken up
MaxSyncRuns == 12

\* the students that get_all_students(page=start_page) yields
Remaining(start_page) ==
    IF SyncRecords > (start_page - 1) * page_size
    THEN SyncRecords - (start_page - 1) * page_size
    ELSE 0

\* the time limit is looked at before every tenth student (lines 104-105):
\* the counts of processed students at which a run can stop
StopCounts(start_page) == {r \in 0 .. Remaining(start_page) - 1 : r % 10 = 0}

\* resume_page = start_page + records_processed_in_run // page_size
\* (lines 115-116)
ResumePage(start_page, records_processed_in_run) ==
    start_page + records_processed_in_run \div page_size

\* a handler that forgets the retries it has made
current_retry_forgotten(start_page, retry_count, next_page) == 0

\* lines 815-822: the retry count of the next invocation
current_retry(start_page, retry_count, next_page) ==
    IF next_page = start_page THEN retry_count + 1 ELSE 0

\* the run of sync_student_profiles that the handler saw return
SyncRun(start_page, retry_count, status, next_page) ==
    [start_page |-> start_page, retry_count |-> retry_count, status |-> status,
     next_page |-> next_page]

\* the scheduler or the admin route invokes the handler with action
\* "sync_profiles" and nothing else (lines 1089-1099): start_page is 1 and
\* retry_count is 0 (lines 803-804)
SyncTrigger ==
    /\ sync.pc = "idle"
    /\ sync.trail = <<>>
    /\ sync' = [sync EXCEPT !.pc = "queued", !.start_page = 1, !.retry_count = 0]
    /\ UNCHANGED <<probe, ledger, scans, now, workers, contacts, passes, logs, calls, pc, req,
                   loc, result, user_states, turn, reminded>>

\* lambda_handler with action "sync_profiles": the sync runs from start_page
\* and returns success, an error, or partial with the page to resume at; on
\* partial the handler stops when the same page would be retried a third
\* time and otherwise invokes itself with next_page and the retry count
SyncProfiles ==
    /\ sync.pc = "queued"
    /\ Len(sync.trail) < MaxSyncRuns
    /\ LET start_page == sync.start_page
           retry_count == sync.retry_count
       IN  \/ \E status \in {"success", "error"} :
                sync' = [sync EXCEPT !.pc = "finished",
                                     !.trail = Append(@, SyncRun(start_page, retry_count,
                                                                 status, 0))]
           \/ \E records_processed_in_run \in StopCounts(start_page) :
                LET next_page == ResumePage(start_page, records_processed_in_run)
                    retry == current_retry(start_page, retry_count, next_page)
                    run == SyncRun(start_page, retry_count, "partial", next_page)
                IN  IF next_page = start_page /\ retry > MaxRetries
                    THEN sync' = [sync EXCEPT !.pc = "stopped", !.trail = Append(@, run)]
                    ELSE sync' = [sync EXCEPT !.start_page = next_page,
                                              !.retry_count = retry,
                                              !.trail = Append(@, run)]
    /\ UNCHANGED <<probe, ledger, scans, now, workers, contacts, passes, logs, calls, pc, req,
                   loc, result, user_states, turn, reminded>>

\* an invocation that is queued is run: Lambda delivers an asynchronous
\* invocation
SyncNext == SyncTrigger \/ SyncProfiles
SpecSync == Init /\ [][SyncNext]_vars /\ WF_vars(SyncProfiles)

(***************************************************************************)
(* Properties                                                              *)
(***************************************************************************)
\* the request of worker p has got past the lookup of lines 312-316
LookedUp(p) == loc[p].issued_date # 0

\* the request of worker p has got past the limiter without being blocked and
\* past the expiry computation of line 303
ExpiryComputed(p) ==
    /\ loc[p].tier \in {"pdf", "text"}
    /\ pc[p] \in {"lookup", "resend", "artifact", "persist", "deliver", "done"}

ReuseStatuses == {"Gate pass valid (text-only sent)", "Gate pass already valid and resent"}
IssueStatuses == {"Gate pass issued", "Gate pass issued (text fallback)"}

IsSubSeq(short, long) ==
    /\ Len(short) <= Len(long)
    /\ \A i \in 1 .. Len(short) : short[i] = long[i]

Max(a, b) == IF a >= b THEN a ELSE b

\* C1: whenever the lookup of generate_gatepass returns an unexpired pass of
\* the student whose recorded payment_percentage is >= the newly computed
\* percentage, the request takes the reuse path: no new identifier is made,
\* no row is added to gate_passes, and the pass_id returned with status 200
\* is the one of the pass found.
C1_ReuseInsteadOfReissue ==
    \A p \in Procs :
        LET g == loc[p].existing
        IN  (/\ LookedUp(p)
             /\ g # NoPass
             /\ g.expiry_date >= loc[p].issued_date
             /\ g.payment_percentage * PctDen(req[p]) >= PctNum(req[p]))
            => /\ pc[p] \in {"resend", "done"}
               /\ loc[p].pass_id = 0
               /\ passes = loc[p].passes0
               /\ (pc[p] = "done" /\ result[p].code = 200)
                     => (result[p].pass_id = g.pass_id /\ result[p].status \in ReuseStatuses)

\* C1 witness: a pass recorded at 70% answers a request that computes 60.5%
C1_Witness ==
    \E p \in Procs :
        /\ pc[p] = "done"
        /\ loc[p].existing.payment_percentage = 70
        /\ req[p].payment_amount = 605
        /\ result[p].status = "Gate pass already valid and resent"
        /\ result[p].pass_id = loc[p].existing.pass_id
        /\ passes = loc[p].passes0

\* C2: if a request made a pass and the identical request (same student, term,
\* payment_amount, total_fees) is repeated while that pass is unexpired and
\* the student is not blocked, the repeated request is a reuse and the number
\* of passes does not grow.
C2_IdempotentReissue ==
    \A p \in Procs :
        (/\ LookedUp(p)
         /\ \E g \in loc[p].passes0 :
               /\ g.student_id = req[p].student_id
               /\ g.term = req[p].term
               /\ g.payment_amount = req[p].payment_amount
               /\ g.total_fees = req[p].total_fees
               /\ g.expiry_date >= loc[p].issued_date)
        => /\ pc[p] \in {"resend", "done"}
           /\ passes = loc[p].passes0

\* the tier the claim gives to the n-th call of a week
TierOfCall(n) == IF n <= 3 THEN "pdf" ELSE IF n <= 5 THEN "text" ELSE "block"

\* C3: for one student within one Monday-anchored week, the n-th call of
\* check_and_update_rate_limit gets tier 'pdf' for n = 1, 2, 3, tier 'text'
\* for n = 4, 5 and tier 'block' for every n >= 6.
C3_TierSequence ==
    \A p \in Procs :
        loc[p].call_no > 0 => loc[p].tier = TierOfCall(loc[p].call_no)

\* C3 witness: the sixth call of a week, blocked
C3_Witness ==
    \E p \in Procs : loc[p].call_no = 6 /\ loc[p].tier = "block"

\* C4: when the limiter returns tier 'block', generate_gatepass returns the
\* rate-limit result (429) at once: gate_passes and student_contacts are as
\* they were, no message is sent, and the only change is that the week's row
\* has its count raised by one (the sixth request of a week leaves 6).
C4_BlockedShortCircuit ==
    \A p \in Procs :
        loc[p].tier = "block"
        => /\ pc[p] = "done"
           /\ result[p] = Result("Rate limit exceeded", 429, 0)
           /\ passes = loc[p].passes0
           /\ contacts = loc[p].contacts0
           /\ loc[p].sent = <<>>
           /\ logs = {IF l.id = loc[p].log_id
                      THEN [l EXCEPT !.request_count = @ + 1, !.last_request_date = loc[p].rl_now]
                      ELSE l : l \in loc[p].logs0}
           /\ \A l \in logs : l.id = loc[p].log_id => l.request_count = loc[p].call_no

\* C4 witness: the sixth request of a week is refused and the row holds 6
C4_Witness ==
    \E p \in Procs :
        /\ result[p].code = 429
        /\ loc[p].call_no = 6
        /\ \E l \in logs : l.id = loc[p].log_id /\ l.request_count = 6

BelowFifty(r) == r.total_fees > 0 /\ PctNum(r) < 50 * PctDen(r)

\* C5: a request whose payment_amount / total_fees * 100 is below 50 adds no
\* row to gate_passes; and when it reaches the expiry computation with a term
\* that has an end date, calculate_expiry_date returns None and the request
\* returns "No gate pass issued" with status 200.
C5_BelowThreshold ==
    \A p \in Procs :
        (pc[p] # "idle" /\ BelowFifty(req[p]))
        => /\ passes = loc[p].passes0
           /\ pc[p] \notin {"persist", "deliver"}
           /\ (ExpiryComputed(p) /\ req[p].term \in ConfiguredTerms)
                 => /\ loc[p].expiry_date = ExpiryNone
                    /\ pc[p] = "done"
                    /\ result[p] = Result("No gate pass issued", 200, 0)

\* C5 witness: 400 of 1000 paid for the running term
C5_Witness ==
    \E p \in Procs :
        /\ pc[p] = "done"
        /\ req[p].payment_amount = 400 /\ req[p].total_fees = 1000 /\ req[p].term = "2026-1"
        /\ loc[p].tier = "pdf"
        /\ result[p].status = "No gate pass issued"

\* the last day of the month of day n
LastDayOfMonthOf(n) ==
    CHOOSE d \in n .. (n + 31) : MonthOf(d) = MonthOf(n) /\ MonthOf(d + 1) # MonthOf(n)

\* the first day, at or after day n, that is the first day of a month
MonthStartFrom(n) ==
    CHOOSE d \in n .. (n + 31) : DomOf(d) = 1 /\ \A e \in n .. (d - 1) : DomOf(e) # 1

\* C6 as stated, on calendar dates: term end for pct >= 100; max(term_end - 30
\* days, now + 1 day) for 70 <= pct < 100; the last day of the month that begins
\* at least 32 days after now, floored at now + 1 day, for 50 <= pct < 70; none
\* below 50.
C6_Original ==
    probe.stage = "applied" =>
        LET pct == probe.p1
            te == TERM_END_DATES(probe.term)
            today == DayOf(probe.now)
            e == probe.e1
        IN  /\ pct >= 1000 => e = ExpiryDate(te)
            /\ (700 <= pct /\ pct < 1000) =>
                  (e.kind = "date" /\ DayOf(e.at) = Max(DayOf(te) - 30, today + 1))
            /\ (500 <= pct /\ pct < 700) =>
                  (e.kind = "date"
                   /\ DayOf(e.at) = Max(LastDayOfMonthOf(MonthStartFrom(today + 32)), today + 1))
            /\ pct < 500 => e = ExpiryNone

\* C6 as amended: calculate_expiry_date returns the term end for pct >= 100;
\* for 70 <= pct < 100 either term_end - 30 days or now + 1 day, the one whose
\* calendar date is max(date of term_end - 30 days, date of now + 1 day); for
\* 50 <= pct < 70 the end (23:59:59.999999) of the last day of the month that
\* contains the day 32 days after now, which is later than now + 1 day; None
\* below 50.
C6_ExpiryTiers ==
    probe.stage = "applied" =>
        LET pct == probe.p1
            te == TERM_END_DATES(probe.term)
            today == DayOf(probe.now)
            e == probe.e1
        IN  /\ pct >= 1000 => e = ExpiryDate(te)
            /\ (700 <= pct /\ pct < 1000) =>
                  /\ e.kind = "date"
                  /\ e.at \in {te - Days(30), probe.now + Days(1)}
                  /\ DayOf(e.at) = Max(DayOf(te) - 30, today + 1)
            /\ (500 <= pct /\ pct < 700) =>
                  /\ e.kind = "date"
                  /\ DayOf(e.at) = LastDayOfMonthOf(today + 32)
                  /\ TodOf(e.at) = EndOfDay
                  /\ e.at > probe.now + Days(1)
            /\ pct < 500 => e = ExpiryNone

\* C6 witness: 60.5% on 2026-03-01 expires at the end of 2026-04-30, the month
\* of 2026-04-02 (the month that begins at least 32 days later is May)
C6_Witness ==
    /\ probe.stage = "applied"
    /\ probe.p1 = 605
    /\ DayOf(probe.now) = DayNum(2026, 3, 1)
    /\ probe.e1 = ExpiryDate(At(2026, 4, 30, EndOfDay))
    /\ MonthOf(MonthStartFrom(DayOf(probe.now) + 32)) = 5

\* the floor of lines 53 and 58 was applied: the result is now + 1 day
Clamped(pct, term, t) ==
    /\ 700 <= pct /\ pct < 1000
    /\ TERM_END_DATES(term) - Days(30) <= t

\* C7: for a fixed term (here one that has not ended) and a fixed now, for
\* p1 <= p2 that both yield an expiry, expiry(p1) <= expiry(p2), except where
\* the floor at now + 1 day applies.
C7_Monotone ==
    (/\ probe.stage = "applied"
     /\ probe.now <= TERM_END_DATES(probe.term)
     /\ probe.e1.kind = "date" /\ probe.e2.kind = "date"
     /\ ~Clamped(probe.p1, probe.term, probe.now)
     /\ ~Clamped(probe.p2, probe.term, probe.now))
    => probe.e1.at <= probe.e2.at

\* C8: a request that returns "Gate pass issued" or its text fallback has added
\* exactly one row to gate_passes, with a fresh pass_id, issued_date = now, the
\* computed expiry and the computed payment_percentage.
C8_IssuePostcondition ==
    \A p \in Procs :
        (pc[p] = "done" /\ result[p].status \in IssueStatuses)
        => \E g \in passes :
              /\ passes \ loc[p].passes0 = {g}
              /\ g.pass_id = result[p].pass_id
              /\ \A h \in loc[p].passes0 : h.pass_id # g.pass_id
              /\ g.student_id = req[p].student_id
              /\ g.issued_date = loc[p].issued_date
              /\ g.expiry_date = loc[p].expiry_date.at
              /\ g.payment_percentage * PctDen(req[p]) = PctNum(req[p])

\* C9: once a request has reached the reuse or the issue decision and a
\* delivery was attempted, it returns a success result (status 200, one of the
\* issued or reused statuses) whatever the deliveries did, and a row it added
\* stays.
C9_DeliveryNeverFails ==
    \A p \in Procs :
        (pc[p] = "done" /\ loc[p].sent # <<>>)
        => /\ result[p].code = 200
           /\ result[p].status \in (ReuseStatuses \cup IssueStatuses)
           /\ loc[p].pass_id # 0 => \E g \in passes : g.pass_id = loc[p].pass_id

\* C10: within a request the WhatsApp registration check completes before the
\* limiter is called and before a row is added to gate_passes, the limiter
\* returns before a row is added, and the row of a new pass is in gate_passes
\* before the first delivery attempt for it.
C10_StepOrdering ==
    \A p \in Procs :
        LET h == loc[p].hist
            newRow == {g \in passes \ loc[p].passes0 : g.pass_id = loc[p].pass_id}
            attempts == {i \in 1 .. Len(loc[p].sent) : loc[p].sent[i].pass_id = loc[p].pass_id}
        IN  /\ IsSubSeq(h, <<"verified", "limited", "persisted", "delivery">>)
            /\ loc[p].call_no > 0 => IsSubSeq(<<"verified", "limited">>, h)
            /\ pc[p] = "rl_write" => h = <<"verified">>
            /\ newRow # {} => IsSubSeq(<<"verified", "limited", "persisted">>, h)
            /\ (loc[p].pass_id # 0 /\ attempts # {}) => newRow # {}

\* C10 witness: a request that went through every step
C10_Witness ==
    \E p \in Procs :
        /\ pc[p] = "done"
        /\ loc[p].hist = <<"verified", "limited", "persisted", "delivery">>
        /\ \E g \in passes \ loc[p].passes0 : g.pass_id = loc[p].pass_id
        /\ loc[p].sent # <<>>

\* C11: a request for term T2 (here one that has an end date) is never answered
\* by reusing an unexpired pass that was issued for a different term T1 of the
\* same student.
C11_TermScopedReuse ==
    \A p \in Procs :
        (/\ LookedUp(p)
         /\ req[p].term \in ConfiguredTerms
         /\ pc[p] = "resend" \/ (pc[p] = "done" /\ result[p].status \in ReuseStatuses))
        => loc[p].existing.term = req[p].term

\* the unexpired passes of the request's student and term as the request began
ActiveFor(p) ==
    {g \in loc[p].passes0 : /\ g.student_id = req[p].student_id
                            /\ g.term = req[p].term
                            /\ g.expiry_date >= loc[p].issued_date}

\* C12: when several unexpired passes of a student and term exist, the
\* reuse-or-issue decision of a later request is the one the most recently
\* issued of them gives, and a request never removes or changes the rows that
\* were there before it.
C12_MostRecentCanonical ==
    \A p \in Procs :
        /\ pc[p] # "idle" => loc[p].passes0 \subseteq passes
        /\ LookedUp(p)
              => \A m \in ActiveFor(p) :
                    (\A g \in ActiveFor(p) : g = m \/ g.issued_date < m.issued_date)
                    => (Adequate(loc[p].existing, req[p]) <=> Adequate(m, req[p]))

\* the request of worker p has ended on the reuse path of lines 319-396
Reused(p) ==
    /\ pc[p] = "done"
    /\ LookedUp(p)
    /\ loc[p].existing # NoPass
    /\ Adequate(loc[p].existing, req[p])

\* C13: on the reuse path a request of tier 'text' sends no attachment and
\* returns "Gate pass valid (text-only sent)" whether or not the stored PDF can
\* be fetched; a request of tier 'pdf' returns "Gate pass already valid and
\* resent", having sent the PDF or, when that failed, a text.  (Stated for the
\* requests that reuse a pass of their own term and return 200.)
C13_DegradedTextOnly ==
    \A p \in Procs :
        (Reused(p) /\ loc[p].existing.term = req[p].term /\ result[p].code = 200)
        => /\ loc[p].tier = "text"
                => /\ \A i \in 1 .. Len(loc[p].sent) : loc[p].sent[i].kind = "text"
                   /\ result[p].status = "Gate pass valid (text-only sent)"
           /\ loc[p].tier = "pdf"
                => /\ result[p].status = "Gate pass already valid and resent"
                   /\ loc[p].sent # <<>>
                   /\ loc[p].sent[Len(loc[p].sent)].outcome = "sent"

\* the rows of gate_pass_request_logs for a student and a week, in a table
RowsOf(table, sid, week_start) ==
    {l \in table : l.student_id = sid /\ l.week_start_date = week_start}

\* request_count of the week's row as the request of worker p began; 0 without a row
CountBefore(p) ==
    LET rows == RowsOf(loc[p].logs0, req[p].student_id, loc[p].week_start)
    IN  IF rows = {} THEN 0 ELSE (CHOOSE l \in rows : TRUE).request_count

\* C14: every call of check_and_update_rate_limit raises the week's
\* request_count by exactly one and sets last_request_date to the call's now,
\* whatever the tier and whatever the request does afterwards; after n calls
\* for a student in a week the week's row holds request_count = n.
C14_CounterCountsEveryRequest ==
    /\ \A k \in CallKeys :
          LET rows == RowsOf(logs, k[1], k[2])
          IN  IF calls[k].n = 0 THEN rows = {}
              ELSE \E l \in rows : rows = {l} /\ l.request_count = calls[k].n
    /\ \A p \in Procs :
          loc[p].call_no > 0
          => \E l \in RowsOf(logs, req[p].student_id, loc[p].week_start) :
                /\ l.request_count = CountBefore(p) + 1
                /\ l.last_request_date = loc[p].rl_now

\* C14 witness: seven calls in one week, the last two of them blocked, and a
\* row that holds 7
C14_Witness ==
    \E p \in Procs :
        /\ pc[p] = "done"
        /\ loc[p].call_no = 7
        /\ result[p].code = 429
        /\ \E l \in RowsOf(logs, req[p].student_id, loc[p].week_start) : l.request_count = 7

\* C15: check_and_update_rate_limit returns the count as it was before the
\* increment: (0, 'pdf') when it creates the week's row, and otherwise
\* (count_before, tier for count_before).
C15_ReturnsPreIncrement ==
    \A p \in Procs :
        loc[p].call_no > 0
        => /\ loc[p].request_count = CountBefore(p)
           /\ loc[p].tier = TierFor(CountBefore(p))

\* C16: once a request of a student was classified 'block' in a week, every
\* later request of the student in that week is classified 'block' too, returns
\* 429 and adds no pass.
C16_BlockedAbsorbing ==
    \A p \in Procs :
        (loc[p].call_no > 0 /\ loc[p].blocked_before)
        => /\ loc[p].tier = "block"
           /\ pc[p] = "done"
           /\ result[p].code = 429
           /\ passes = loc[p].passes0

\* C16 witness: the seventh request of a week, after the sixth was blocked
C16_Witness ==
    \E p \in Procs :
        /\ loc[p].blocked_before
        /\ loc[p].call_no = 7
        /\ loc[p].tier = "block"
        /\ result[p].status = "Rate limit exceeded"

\* C17: the first request of a student in a new Monday-anchored week adds a
\* fresh row with request_count = 1 and is served at tier 'pdf', whatever the
\* counts of earlier weeks; the rows of other weeks are left as they were and
\* no row is ever deleted.
C17_WeeklyReset ==
    \A p \in Procs :
        /\ pc[p] # "idle"
              => /\ \A l \in loc[p].logs0 : \E m \in logs : m.id = l.id
                 /\ \A l \in loc[p].logs0 :
                       (loc[p].call_no > 0 /\ l.week_start_date # loc[p].week_start) => l \in logs
        /\ (loc[p].call_no > 0
            /\ RowsOf(loc[p].logs0, req[p].student_id, loc[p].week_start) = {})
              => /\ loc[p].tier = "pdf"
                 /\ loc[p].logs0 \subseteq logs
                 /\ \E l \in logs :
                       /\ logs \ loc[p].logs0 = {l}
                       /\ l.student_id = req[p].student_id
                       /\ l.week_start_date = loc[p].week_start
                       /\ l.request_count = 1

\* C17 witness: the student was blocked in the week of 2026-02-23 (six calls)
\* and is served at tier 'pdf' on Tuesday 2026-03-03
C17_Witness ==
    \E p \in Procs :
        /\ loc[p].call_no = 1
        /\ loc[p].tier = "pdf"
        /\ loc[p].week_start = At(2026, 3, 2, 0)
        /\ \E l \in loc[p].logs0 \cap logs :
              /\ l.student_id = req[p].student_id
              /\ l.week_start_date = At(2026, 2, 23, 0)
              /\ l.request_count = 6

\* C18: in every state the week_start_date of each row of
\* gate_pass_request_logs is the Monday 00:00 of the week that holds the date
\* of its last_request_date.
C18_WeekStartMonday ==
    \A l \in logs :
        /\ Weekday(DayOf(l.week_start_date)) = 0
        /\ TodOf(l.week_start_date) = 0
        /\ DayOf(l.week_start_date) <= DayOf(l.last_request_date)
        /\ DayOf(l.last_request_date) < DayOf(l.week_start_date) + 7

\* C18 witness: a row last touched on Sunday 2026-03-01 and one last touched
\* on Tuesday 2026-03-03, after midnight
C18_Witness ==
    /\ \E l \in logs : l.last_request_date = At(2026, 3, 1, 1) /\ l.week_start_date = At(2026, 2, 23, 0)
    /\ \E l \in logs : l.last_request_date = At(2026, 3, 3, 1) /\ l.week_start_date = At(2026, 3, 2, 0)

\* the turn met a fault: a collaborator raised, or generate_gatepass failed
\* inside (a result with code 500)
Faulted(t) ==
    \/ t.raised # "none"
    \/ \E k \in 1 .. Len(t.lines) : t.lines[k].code = 500

\* the replies that apologise for a fault
ApologyReplies == {"too_many_requests", "no_statements_found", "error_fetching_statements",
                   "unexpected_error", "no_financial_data", "failed_to_generate_gate_passes",
                   "error_fetching_for_term"}

\* C19: a turn of a registered user in which an exception was raised, or in
\* which issuance failed inside, ends with the session in main_menu and with
\* an apologetic reply that names a human contact
C19_SessionResetOnFault ==
    \A ph \in Phones :
       (turn.pc = "replied" /\ turn.phone = ph /\ Faulted(turn))
          => /\ user_states[ph].state = "main_menu"
             /\ turn.reply.text \in ApologyReplies
             /\ turn.reply.contact

\* the turn is the choice of the gate pass from the main menu and it has
\* served every student of the phone
GatePassTurnServed(t) ==
    /\ t.pc = "replied"
    /\ t.state0 = "main_menu" /\ t.message = "3"
    /\ t.student_ids # <<>> /\ Len(t.lines) = Len(t.student_ids)

\* C20: a gate-pass turn chosen from the main menu ends in main_menu whatever
\* the outcomes for the students were, and a reply that reports an error for
\* a student holds a human-contact string
C20_GatePassTurnEndsInMainMenu ==
    GatePassTurnServed(turn)
       => /\ user_states[turn.phone].state = "main_menu"
          /\ (\E k \in 1 .. Len(turn.lines) : turn.lines[k].kind = "error")
                => turn.reply.contact

\* today lies in no configured term window
BetweenTerms(today) ==
    \A term \in ConfiguredTerms :
       ~(DayOf(TERM_START_DATES(term)) <= today /\ today <= DayOf(TERM_END_DATES(term)))

\* C21: when today lies in no term window, the choice of the gate pass from
\* the main menu is answered with the reply that tells when schools reopen,
\* issuance is not called for any student, and the session is in main_menu
C21_BetweenTermsDenied ==
    (/\ turn.pc = "replied"
     /\ turn.state0 = "main_menu" /\ turn.message = "3" /\ turn.student_ids # <<>>
     /\ BetweenTerms(DayOf(now)))
       => /\ turn.reply.text = "schools_reopen"
          /\ turn.lines = <<>> /\ turn.raised = "none"
          /\ user_states[turn.phone].state = "main_menu"

\* the term has an end date before today
EndedTerm(term, today) ==
    term \in ConfiguredTerms /\ DayOf(TERM_END_DATES(term)) < today

\* the turn asks for gate passes: "3" in the main menu, for the default term
\* of the handler, or in whatsapp_menu a term code in awaiting_term_gatepass;
\* the sender passed the check of line 216 of whatsapp_menu
GatePassAsked(t) ==
    /\ t.pc # "idle"
    /\ t.student_ids # <<>>
    /\ t.reply.text # "not_on_whatsapp"
    /\ \/ t.state0 = "main_menu" /\ t.message = "3"
       \/ t.impl = MenuImpl /\ t.state0 = "awaiting_term_gatepass"
          /\ t.message \in ConfiguredTerms

GuestQuery(t) ==
    /\ t.pc = "replied"
    /\ t.phone = GuestNumber
    /\ t.message \notin {"menu", "5", "help"}
    /\ t.reply.text # "not_on_whatsapp"

\* C23: a query of an unregistered phone that finds five queries counted on
\* the same day gets the limit-reached message, is not counted and is not
\* answered by the AI collaborator; a query on a later day than the last
\* counted one starts the counter again, is answered and leaves query_count 1
C23_UnregisteredDailyCap ==
    GuestQuery(turn) =>
       LET today == DayOf(now)
           row == user_states[turn.phone]
       IN  /\ ~turn.error
           /\ (turn.updated0 # NoTime /\ DayOf(turn.updated0) = today
               /\ turn.count0 >= QueryLimit)
                 => /\ turn.reply.text = "daily_limit_reached"
                    /\ row.query_count = turn.count0
           /\ (turn.updated0 # NoTime /\ DayOf(turn.updated0) < today)
                 => /\ turn.reply.text = "ai_response"
                    /\ row.query_count = 1

\* the values of UserState.state that the program defines
DefinedStates ==
    {"main_menu", "awaiting_term_balance", "awaiting_term_statement",
     "awaiting_term_gatepass", "reminder_sent", "unregistered_menu"}

\* the turn of a phone with students found a row whose state the dispatch of
\* the handler does not name
UnrecognizedStateFound(t) ==
    /\ t.pc = "replied"
    /\ t.student_ids # <<>>
    /\ t.reply.text # "not_on_whatsapp"
    /\ t.state0 \notin {"absent", "main_menu"} \cup AwaitingStates

MenuKeywords ==
    {"menu", "1", "balance", "view balance", "2", "statement", "request statement",
     "3", "gate pass", "get gate pass", "help"}

\* the turn of a registered phone in main_menu whose message is no keyword
\* and no shortcut and, for whatsapp_menu, which also takes a term code and
\* "statement <term>", names no configured term
UnmatchedInMainMenu(t) ==
    /\ t.pc = "replied"
    /\ t.student_ids # <<>>
    /\ t.state0 = "main_menu"
    /\ t.reply.text # "not_on_whatsapp"
    /\ t.message \notin MenuKeywords
    /\ t.impl = MenuImpl =>
          /\ t.message \notin ConfiguredTerms
          /\ StatementWord(t.message) \notin ConfiguredTerms

\* C25: an unmatched input in main_menu is answered with the invalid-input
\* text followed by the menu, no error is raised and the state is main_menu
C25_UnmatchedInputShowsMenu ==
    UnmatchedInMainMenu(turn)
       => /\ turn.reply.text = "invalid_input"
          /\ turn.reply.menu
          /\ ~turn.error
          /\ turn.raised = "none"
          /\ user_states[turn.phone].state = "main_menu"

\* the minimum interval in days at instant t of a reminder for the term, in
\* whole weeks remaining as config.weeks_remaining counts them
RequiredInterval(term, t) ==
    IF WeeksRemaining(term, t) <= 2 THEN 2
    ELSE IF WeeksRemaining(term, t) <= 4 THEN 4
    ELSE 7

\* whole days from instant t1 to instant t2
DaysBetween(t1, t2) == (t2 - t1) \div TicksPerDay

\* C26: the last two reminders sent to a phone are at least the minimum
\* interval apart: 2 days when at most 2 weeks of the term of the later one
\* remain, 4 days when at most 4 weeks remain and 7 days otherwise; and for the
\* row of a session should_send_reminder is false while fewer days than the
\* interval have passed since its last_updated (the runs of
\* send_balance_reminders follow one another, as the scheduler's loop makes them)
C26_ReminderMinimumInterval ==
    /\ \A ph \in RowPhones :
          reminded[ph].prev # NoTime
             => DaysBetween(reminded[ph].prev, reminded[ph].at)
                   >= RequiredInterval(reminded[ph].term, reminded[ph].at)
    /\ \A ph \in RowPhones, term \in {"2026-1", "2026-2"} :
          (/\ user_states[ph] # NoRow
           /\ user_states[ph].last_updated # NoTime
           /\ DaysBetween(user_states[ph].last_updated, now) < RequiredInterval(term, now))
             => ~should_send_reminder(user_states[ph], term, now)

\* a second reminder went out two days after the one before it, in the last
\* two weeks of term 2026-1
C26_Witness ==
    \E ph \in RowPhones :
       /\ reminded[ph].prev # NoTime
       /\ reminded[ph].term = "2026-1"
       /\ WeeksRemaining("2026-1", reminded[ph].at) <= 2
       /\ DaysBetween(reminded[ph].prev, reminded[ph].at) = 2

\* C27: every reminder was sent when at least 2 weeks of its term had
\* elapsed, also the first one to a phone that had no row
C27_NoReminderEarlyInTerm ==
    \A ph \in RowPhones :
       reminded[ph] # NoReminder
          => WeeksElapsed(reminded[ph].term, reminded[ph].at) >= 2

\* the configured terms whose window, both ends included, contains the day
WindowsAround(day) ==
    {term \in ConfiguredTerms :
        DayOf(TERM_START_DATES(term)) <= day /\ day <= DayOf(TERM_END_DATES(term))}

\* C28: on the start date and on the end date of a configured term, at any
\* time of the day, get_current_term returns the code of the term; on the day
\* after the end date it does not; and no date lies in the windows of two terms
C28_TermBoundariesInclusive ==
    probe.stage = "term_found"
       => /\ \A term \in ConfiguredTerms :
                /\ DayOf(probe.now) = DayOf(TERM_START_DATES(term)) => probe.term = term
                /\ DayOf(probe.now) = DayOf(TERM_END_DATES(term)) => probe.term = term
                /\ DayOf(probe.now) = DayOf(TERM_END_DATES(term)) + 1 => probe.term # term
          /\ Cardinality(WindowsAround(DayOf(probe.now))) <= 1

\* the term was asked for in the last hours of the end date of term 2026-1
C28_Witness ==
    /\ probe.stage = "term_found"
    /\ probe.now = TERM_END_DATES("2026-1") + EndOfDay
    /\ probe.term = "2026-1"

\* TRUE iff s holds the element e
Holds(s, e) == \E k \in 1 .. Len(s) : s[k] = e

\* the calls of workers p and q are for the same student and term, both found
\* no unexpired pass at line 317 and both have added their row
RacedPair(p, q) ==
    /\ p # q
    /\ req[p].student_id = req[q].student_id /\ req[p].term = req[q].term
    /\ loc[p].existing = NoPass /\ loc[q].existing = NoPass
    /\ Holds(loc[p].hist, "persisted") /\ Holds(loc[q].hist, "persisted")

\* the unexpired rows made for the student and the term
ActiveRows(sid, term) ==
    {g \in passes : g.student_id = sid /\ g.term = term /\ g.expiry_date >= now}

\* C29: nothing excludes two calls for the same student and term from one
\* another: when both have read that there is no unexpired pass and both have
\* persisted, the table holds two unexpired rows for the student and the term
\* (C29_Witness is the interleaving in which this happens)
C29_BothRacersPersist ==
    \A p \in Procs, q \in Procs :
       RacedPair(p, q) => Cardinality(ActiveRows(req[p].student_id, req[p].term)) >= 2

\* the table was empty when both calls began, both read no pass, both
\* persisted, and there are two unexpired rows for the student and the term
C29_Witness ==
    /\ RacedPair(1, 2)
    /\ loc[1].passes0 = {} /\ loc[2].passes0 = {}
    /\ Cardinality(ActiveRows(req[1].student_id, req[1].term)) = 2

\* C30: there is at most one row of gate_pass_request_logs per student and
\* week, and its request_count is the number of calls of
\* check_and_update_rate_limit made for the student in the week
C30_OneRecordExactCount ==
    \A key \in CallKeys :
       LET rows == {l \in logs : l.student_id = key[1] /\ l.week_start_date = key[2]}
       IN  /\ Cardinality(rows) <= 1
           /\ rows = {} => calls[key].n = 0
           /\ \A l \in rows : l.request_count = calls[key].n

\* the session states of a registered user
SessionStates == {"main_menu", "reminder_sent"} \cup AwaitingStates

\* handle_whatsapp_message has answered the message "menu" of a phone with
\* students whose row was in one of the session states
MenuSentByRegistered(t) ==
    /\ t.pc = "replied"
    /\ t.impl = HookImpl
    /\ t.student_ids # <<>>
    /\ t.message = "menu"
    /\ t.state0 \in SessionStates

\* C31: from every session state the message "menu" of a registered user
\* leaves the row in main_menu within the turn, and the reply shows the menu
C31_MenuWorksFromEveryState ==
    MenuSentByRegistered(turn)
       => /\ user_states[turn.phone].state = "main_menu"
          /\ turn.reply.menu

\* handle_whatsapp_message has returned from a turn of a phone whose number
\* is well formed
HookReturned(t) == t.pc = "replied" /\ t.impl = HookImpl

\* the message of the turn is a configured term that has started, sent while
\* the row awaited the term of a statement or of a gate pass
StartedTermAwaited(t) ==
    /\ t.state0 \in {"awaiting_term_statement", "awaiting_term_gatepass"}
    /\ t.student_ids # <<>>
    /\ t.message \in ConfiguredTerms
    /\ DayOf(TERM_START_DATES(t.message)) <= DayOf(now)

\* C32: every turn of handle_whatsapp_message returns a response text, and a
\* started configured term entered while a statement's or a gate pass's term
\* is awaited is answered and moves the row to another state
C32_EveryTurnReplies ==
    HookReturned(turn)
       => /\ turn.reply # NoReply
          /\ StartedTermAwaited(turn) => user_states[turn.phone].state # turn.state0

\* the statuses generate_gatepass returns when it has made a new pass
IssuedStatuses == {"Gate pass issued", "Gate pass issued (text fallback)"}

\* C33: in a gate-pass turn of handle_whatsapp_message the line of a student
\* says that a gate pass was issued only if generate_gatepass returned that
\* it issued one, with the PDF or with the text fallback
C33_ReplyReflectsIssuance ==
    turn.impl = HookImpl
       => \A k \in 1 .. Len(turn.lines) :
             turn.lines[k].kind = "issued" => turn.lines[k].status \in IssuedStatuses

\* C34: the row of a phone counts in reminder_count the reminders that were
\* sent to it, so a send that raised changed nothing; a row in reminder_sent
\* was last updated when the last reminder was sent; and a turn of an inbound
\* message never leaves a row in reminder_sent that it did not find there
C34_ReminderBookkeepingFollowsSend ==
    /\ \A ph \in RowPhones :
          /\ user_states[ph].reminder_count = reminded[ph].n
          /\ user_states[ph].state = "reminder_sent"
                => /\ reminded[ph].n >= 1
                   /\ user_states[ph].last_updated = reminded[ph].at
    /\ (turn.pc = "replied" /\ user_states[turn.phone].state = "reminder_sent")
          => turn.state0 = "reminder_sent"

\* a second reminder was sent to a phone that answered the first one: its row
\* is in reminder_sent again and counts two reminders
C34_Witness ==
    \E ph \in RowPhones :
       /\ reminded[ph].n = 2
       /\ user_states[ph].state = "reminder_sent"
       /\ user_states[ph].reminder_count = 2
       /\ user_states[ph].last_updated = now

\* C35: a payment confirmation is sent only for a total above the stored
\* last_total_paid, the stored total is the one the last confirmation named
\* (a send that raised stored nothing), and no more confirmations were sent
\* than payments arrived: a run without a new payment sends none
C35_OneConfirmationPerPayment ==
    \A sid \in PaymentStudents :
       /\ ledger.nconf[sid] > 0 => ledger.conf_total[sid] > ledger.conf_last[sid]
       /\ ledger.last_total_paid[sid] = ledger.conf_total[sid]
       /\ ledger.nconf[sid] <= ledger.npay[sid]
       /\ ledger.last_total_paid[sid] <= ledger.paid[sid]

\* two payments arrived and each was confirmed once; the stored total is the
\* sum that the SMS API reports
C35_Witness ==
    \E sid \in PaymentStudents :
       /\ ledger.npay[sid] = 2 /\ ledger.nconf[sid] = 2
       /\ ledger.last_total_paid[sid] = ledger.paid[sid]
       /\ ledger.conf_last[sid] > 0

\* C36: verify_gatepass answers "valid" only when the accessing number is the
\* number recorded in the pass and the pass has not expired, and the call
\* that finds a pass expired adds no scan
C36_ValidOnlyForAuthorizedNumber ==
    /\ scans.last.status = "valid"
          => /\ scans.last.accessing = scans.last.registered
             /\ scans.last.expiry >= scans.last.at
    /\ scans.last.status = "expired" => ~scans.last.scanned
    /\ \A r \in scans.rows : \A g \in passes :
          g.pass_id = r.pass_id => g.expiry_date >= r.scanned_at

\* C37: no pass is born expired: every pass that generate_gatepass persisted
\* expires strictly after it was issued, whatever its term and its payment
\* percentage
C37_NoPassBornExpired ==
    \A g \in passes : g.expiry_date > g.issued_date

\* the arguments of the request of worker p are among those that validation
\* refuses: a bad student id, a bad term format, total fees that are not
\* positive, a negative payment, a requesting number of a bad format
Malformed(p) ==
    \/ req[p].student_id \notin StudentIdFormatOK
    \/ req[p].term \notin TermFormatOK
    \/ req[p].total_fees <= 0
    \/ req[p].payment_amount < 0
    \/ req[p].requesting_whatsapp_number \notin NumberFormatOK \cup {NoNumber}

\* the request of worker p was refused with 400 or 404 before its number was
\* found registered with WhatsApp
RefusedUnverified(p) ==
    /\ result[p].code \in {400, 404}
    /\ \A i \in 1 .. Len(loc[p].hist) : loc[p].hist[i] # "verified"

\* C38: a request that ends in a validation error, in the not-found error or
\* in the error of an unregistered number leaves every RateLimitLog row and
\* every pass as it found them and sends no message
C38_RejectedRequestsCostNothing ==
    \A p \in Procs :
        (pc[p] = "done" /\ (Malformed(p) \/ RefusedUnverified(p)))
            => /\ result[p].code \in {400, 404}
               /\ logs = loc[p].logs0
               /\ passes = loc[p].passes0
               /\ loc[p].sent = <<>>

\* with a counted request and a pass on record, a well-formed request whose
\* number was resolved has been refused because the number is not registered
\* with WhatsApp
C38_Witness ==
    \E p \in Procs :
        /\ pc[p] = "done"
        /\ logs # {} /\ passes # {}
        /\ ~Malformed(p)
        /\ RefusedUnverified(p)
        /\ result[p].code = 400
        /\ loc[p].whatsapp_number # NoNumber

\* C39: the throttle clock is the last reminder: for a number that has been
\* reminded, what should_send_reminder decides from the row of the number is
\* what it decides from the instant the last reminder was sent, whatever
\* turns the number has had since
C39_ThrottleClockIsLastReminder ==
    \A ph \in DOMAIN reminded :
        (reminded[ph].n >= 1 /\ user_states[ph] # NoRow)
            => \A term \in ConfiguredTerms :
                  (TERM_START_DATES(term) <= now /\ now <= TERM_END_DATES(term))
                      => should_send_reminder(user_states[ph], term, now)
                         = should_send_reminder(
                              [user_states[ph] EXCEPT !.last_updated = reminded[ph].at],
                              term, now)

\* the runs of the trail: each partial run resumes at its start page or
\* later, each next run starts where the run before it said, with the retry
\* count one higher on the same page and 0 on a later page, and no four
\* runs in a row start on the same page
SyncBounded ==
    LET trail == sync.trail
    IN  /\ \A i \in 1 .. Len(trail) :
              /\ trail[i].retry_count \in 0 .. MaxRetries
              /\ trail[i].status = "partial" => trail[i].next_page >= trail[i].start_page
        /\ \A i \in 1 .. Len(trail) - 1 :
              /\ trail[i].status = "partial"
              /\ trail[i + 1].start_page = trail[i].next_page
              /\ trail[i + 1].retry_count =
                    IF trail[i].next_page = trail[i].start_page
                    THEN trail[i].retry_count + 1 ELSE 0
        /\ \A i \in 1 .. Len(trail) - 3 :
              ~(/\ trail[i + 1].start_page = trail[i].start_page
                /\ trail[i + 2].start_page = trail[i].start_page
                /\ trail[i + 3].start_page = trail[i].start_page)
        /\ sync.pc = "queued" =>
              /\ Len(trail) < MaxSyncRuns
              /\ sync.retry_count <= MaxRetries
        /\ sync.pc = "stopped" =>
              /\ Len(trail) >= 3
              /\ trail[Len(trail)].next_page = trail[Len(trail)].start_page
              /\ trail[Len(trail)].retry_count = MaxRetries

\* C40: the re-invocation of the profile sync terminates: the runs stay
\* bounded as SyncBounded says, and a queued invocation leads to a handler
\* that invokes no further one
C40_SyncReinvocationTerminates ==
    /\ []SyncBounded
    /\ (sync.pc = "queued") ~> (sync.pc \in {"finished", "stopped"})

\* the sync advanced to a later page, was retried there twice and stopped
C40_Witness ==
    /\ sync.pc = "stopped"
    /\ Len(sync.trail) >= 4
    /\ sync.trail[Len(sync.trail)].start_page > 1
    /\ sync.trail[Len(sync.trail) - 2].start_page = sync.trail[Len(sync.trail)].start_page
    /\ sync.trail[Len(sync.trail) - 2].retry_count = 0
    /\ sync.trail[Len(sync.trail) - 3].start_page < sync.trail[Len(sync.trail)].start_page

====
